---- MODULE Spec2Model ----
(***************************************************************************)
(* CiderPress (VoiceMemoLiberator) backend: the slice catalog              *)
(* (backend/database.rs), the migration engine (backend/migrate.rs), the   *)
(* transcription progress cell and batch loop (backend/transcribe.rs,      *)
(* lib.rs) and the Tauri commands of lib.rs that write the catalog.        *)
(*                                                                         *)
(* Option<T> is modelled as a sequence: None is <<>>, Some(x) is <<x>>.    *)
(* Durations are whole seconds, sizes are bytes.                           *)
(***************************************************************************)
EXTENDS Integers, Sequences, FiniteSets, TLC

VARIABLES
    catalog,      \* the slices table: rowid -> Slice
    lastRowid,    \* last_insert_rowid() of the connection held in AppState.db
    audioDir,     \* the managed audio directory: file name -> size on disk
    ret,          \* the last command/event and its result
    env,          \* the source side: voice memo root, index file, source tree
    migProgress,  \* MIGRATION_PROGRESS: Option<MigrationProgress>
    mig,          \* the spawned migration tasks: worker -> locals
    trProgress,   \* TRANSCRIPTION_PROGRESS: Option<TranscriptionProgress>
    tr,           \* the spawn_blocking transcription tasks: worker -> locals
    hist          \* history of finished migration runs (summary and catalog)

vars == <<catalog, lastRowid, audioDir, ret, env, migProgress, mig, trProgress, tr, hist>>

----------------------------------------------------------------------------
(* Bounds *)

MaxSlices == 2
MaxRuns == 2
MaxBatches == 2

----------------------------------------------------------------------------
(* Option and arithmetic helpers *)

None == <<>>
Some(x) == <<x>>
IsSome(o) == Len(o) = 1
IsNone(o) == Len(o) = 0

Max2(a, b) == IF a >= b THEN a ELSE b

MaxOf(S) == CHOOSE x \in S : \A y \in S : y <= x

----------------------------------------------------------------------------
(* Program constants *)

MiB == 1048576
RateSeconds == 35
RatePer == 600
ImportBytesPerSecond == 34000

----------------------------------------------------------------------------
(* Names, files and texts the commands are fed with *)

AudioNames == {"a.m4a", "b.m4a"}
TextEntryNames == <<"text_entry_1", "text_entry_2", "text_entry_3">>
PlaceholderNames == <<"Slice 1", "Slice 2", "Slice 3">>
RenameTargets == {"a.m4a", "memo"}

\* files the user can pick for import_audio_slice / migration can find
FileA == [path |-> "a.m4a", name |-> "a.m4a", ext |-> "m4a", kind |-> "file",
          size |-> 1048576, dur |-> None]
FileB == [path |-> "b.m4a", name |-> "b.m4a", ext |-> "m4a", kind |-> "file",
          size |-> 10000, dur |-> None]
FileA2 == [path |-> "sub/a.m4a", name |-> "a.m4a", ext |-> "m4a", kind |-> "file",
           size |-> 2097152, dur |-> Some(60)]
SourceFiles == {FileA, FileB, FileA2}
PickableFiles == {FileB, FileA2}

----------------------------------------------------------------------------
(* The slices table *)

NewSlice(name, title, transcribed, size, ftype, est, dur, text, taken, words, model) ==
    [name |-> name, title |-> title, transcribed |-> transcribed, size |-> size,
     ftype |-> ftype, est |-> est, dur |-> dur, transcription |-> text,
     time_taken |-> taken, word_count |-> words, model |-> model]

\* a slices table without the UNIQUE constraint
UniqueOkNoConstraint(cat, id, name) == TRUE

\* the UNIQUE constraint on original_audio_file_name: may row id carry name?
UniqueOk(cat, id, name) ==
    ~ \E j \in DOMAIN cat : j # id /\ cat[j].name = name

\* rowid chosen by SQLite for INTEGER PRIMARY KEY: one more than the largest
NextRowid(cat) == IF DOMAIN cat = {} THEN 1 ELSE MaxOf(DOMAIN cat) + 1

\* a lookup that never finds the name
SliceExistsNever(cat, name) == FALSE

\* SELECT COUNT(*) FROM slices WHERE original_audio_file_name = ?1, count > 0
SliceExists(cat, name) ==
    Cardinality({j \in DOMAIN cat : cat[j].name = name}) > 0

\* INSERT OR IGNORE ... ; Ok(last_insert_rowid())
InsertSlice(cat, rowid, s) ==
    IF UniqueOk(cat, 0, s.name)
    THEN [cat |-> cat @@ (NextRowid(cat) :> s), rowid |-> NextRowid(cat), res |-> "ok"]
    ELSE [cat |-> cat, rowid |-> rowid, res |-> "ok"]

\* an update without the pre-check
ExistingCountNoCheck(cat, id, name) == 0

\* SELECT COUNT(*) FROM slices WHERE original_audio_file_name = ?1 AND id != ?2
ExistingCount(cat, id, name) ==
    Cardinality({j \in DOMAIN cat : cat[j].name = name /\ j # id})

\* an update that answers Ok for an id that is not there
UpdateSliceNameDbNoIdCheck(cat, id, newName) ==
    IF ExistingCount(cat, id, newName) > 0
    THEN [cat |-> cat, res |-> "already_exists"]
    ELSE IF id \notin DOMAIN cat
    THEN [cat |-> cat, res |-> "ok"]
    ELSE [cat |-> [cat EXCEPT ![id].name = newName], res |-> "ok"]

\* a rename that writes the whole row anew and loses the transcript
UpdateSliceNameDbWholeRow(cat, id, newName) ==
    IF ExistingCount(cat, id, newName) > 0
    THEN [cat |-> cat, res |-> "already_exists"]
    ELSE IF id \notin DOMAIN cat
    THEN [cat |-> cat, res |-> "not_found"]
    ELSE [cat |-> [cat EXCEPT ![id].name = newName, ![id].transcribed = FALSE,
                              ![id].transcription = None], res |-> "ok"]

UpdateSliceNameDb(cat, id, newName) ==
    IF ExistingCount(cat, id, newName) > 0
    THEN [cat |-> cat, res |-> "already_exists"]
    ELSE IF id \notin DOMAIN cat
    THEN [cat |-> cat, res |-> "not_found"]
    ELSE IF ~ UniqueOk(cat, id, newName)
    THEN [cat |-> cat, res |-> "sql_error"]
    ELSE [cat |-> [cat EXCEPT ![id].name = newName], res |-> "ok"]

UpdateSliceDb(cat, id, s) ==
    IF ExistingCount(cat, id, s.name) > 0
    THEN [cat |-> cat, res |-> "already_exists"]
    ELSE IF id \notin DOMAIN cat
    THEN [cat |-> cat, res |-> "not_found"]
    ELSE IF ~ UniqueOk(cat, id, s.name)
    THEN [cat |-> cat, res |-> "sql_error"]
    ELSE [cat |-> [cat EXCEPT ![id] = s], res |-> "ok"]

\* an UPDATE that sets transcribed and the text only
UpdateSliceTranscriptionNoModel(cat, id, text, taken, words, model) ==
    IF id \in DOMAIN cat
    THEN [cat EXCEPT ![id].transcribed = TRUE, ![id].transcription = Some(text)]
    ELSE cat

\* UPDATE slices SET transcribed = 1, transcription = ?, ... WHERE id = ?
UpdateSliceTranscription(cat, id, text, taken, words, model) ==
    IF id \in DOMAIN cat
    THEN [cat EXCEPT ![id].transcribed = TRUE,
                     ![id].transcription = Some(text),
                     ![id].time_taken = Some(taken),
                     ![id].word_count = Some(words),
                     ![id].model = Some(model)]
    ELSE cat

----------------------------------------------------------------------------
(* Estimates *)

\* ceil(duration / 600 * 35), and round(size / 1 MiB / 10 * 35), at least 1
EstimateTranscriptionTime(size, dur) ==
    IF IsSome(dur)
    THEN Max2(1, (dur[1] * RateSeconds + RatePer - 1) \div RatePer)
    ELSE Max2(1, (size * 7 + MiB) \div (2 * MiB))

\* start_current_slice: the per-slice estimate shown while a slice is being
\* transcribed; .ceil() in both branches
StartCurrentSliceEstimate(size, dur) ==
    IF IsSome(dur)
    THEN Max2(1, (dur[1] * RateSeconds + RatePer - 1) \div RatePer)
    ELSE Max2(1, (size * 7 + 2 * MiB - 1) \div (2 * MiB))

\* the quotient without .max(1)
ImportEstimateNoFloor(size) == size \div ImportBytesPerSecond

\* (file_size / 34000).max(1)
ImportEstimate(size) == Max2(size \div ImportBytesPerSecond, 1)

----------------------------------------------------------------------------
(* Inputs of the commands *)

Titles == {None}
\* a text is the sequence of its words and of the blanks between them
Texts == {<<"hello", " ", "world">>}
ModelName == "base.en"
Elapsed == {2}

RECURSIVE TextBytes(_)
\* content.len(): the bytes of the words and of the blanks between them
TextBytes(t) ==
    IF t = <<>> THEN 0
    ELSE Len(t[1]) + TextBytes(Tail(t))

\* split_whitespace().count(): the runs of pieces that are not blanks
WordCount(t) ==
    Cardinality({k \in 1 .. Len(t) : t[k] # " " /\ (k = 1 \/ t[k - 1] = " ")})

\* the events of the stream that whisper.transcribe returns
Segment(t) == [kind |-> "segment", transcription |-> t]
Download == [kind |-> "download", transcription |-> << >>]
IsSegment(e) == e.kind = "segment"

StreamPlain == <<Download, Segment(<<"hello">>), Segment(<<"world">>)>>
StreamBlanks == <<Segment(<<" ", "hello">>), Download, Segment(<<" ", "big", " ", "world">>)>>
StreamDownloadOnly == <<Download, Download>>
EventStreams == {StreamPlain, StreamBlanks, StreamDownloadOnly}

\* segments put one after the other with nothing between them
RECURSIVE JoinNoBlank(_)
JoinNoBlank(segs) ==
    IF segs = << >> THEN << >> ELSE Head(segs) \o JoinNoBlank(Tail(segs))

\* transcription_segments.join(" ")
RECURSIVE Join(_)
Join(segs) ==
    IF segs = << >> THEN << >>
    ELSE IF Len(segs) = 1 THEN Head(segs)
    ELSE Head(segs) \o <<" ">> \o Join(Tail(segs))

\* real_transcribe: the segments of the stream in arrival order, joined
RealTranscribe(events) ==
    LET segs == SelectSeq(events, IsSegment)
    IN  Join([k \in 1 .. Len(segs) |-> segs[k].transcription])

TextFileN == [name |-> "n.txt", stem |-> "n", content |-> <<"hello", " ", "world">>, readable |-> TRUE]
TextFileBad == [name |-> "n.txt", stem |-> "n", content |-> <<>>, readable |-> FALSE]
TextFiles == {TextFileN, TextFileBad}

Stem(f) == IF f.name = "a.m4a" THEN "a" ELSE IF f.name = "b.m4a" THEN "b" ELSE "n"

SliceIds == 1 .. (MaxSlices + 1)

\* records the frontend can send to update_slice
UpdatePayloads(name) ==
    { NewSlice(name, None, FALSE, 1024, "m4a", 30, None, None, None, None, None),
      NewSlice(name, None, TRUE, 1024, "m4a", 30, None,
               Some(<<"Updated", "transcription", "text">>), Some(45), Some(3), None),
      NewSlice(name, Some("memo"), TRUE, 1024, "m4a", 30, Some(60),
               Some(<<"hello", " ", "world">>), Some(2), Some(2), Some(ModelName)) }

Event(op, res) == [op |-> op, res |-> res]

IdleMig == [pc |-> "idle", files |-> <<>>, idx |-> 0, copied |-> 0, skipped |-> 0,
            errors |-> 0, result |-> "none", runs |-> 0, pre |-> {}, inserted |-> 0]
IdleTr == [pc |-> "idle", ids |-> <<>>, i |-> 0, est |-> 0, text |-> <<>>,
           outcome |-> "none", batches |-> 0, done |-> <<>>,
           requested |-> <<>>, skip |-> FALSE]

MigWorkers == {"m1", "m2"}
TrWorkers == {"t1", "t2"}

\* the voice memo root as WalkDir yields it: files, a file that is no recording,
\* a directory that cannot be read (the directory, then the error of reading
\* it), a directory with files in it, a file whose extension is upper case
FileTxt == [path |-> "notes.txt", name |-> "notes.txt", ext |-> "txt", kind |-> "file",
            size |-> 10000, dur |-> None]
DirLocked == [path |-> "locked", name |-> "locked", ext |-> "", kind |-> "dir", size |-> 0,
              dur |-> None]
ErrLocked == [path |-> "locked", name |-> "locked", ext |-> "", kind |-> "error", size |-> 0,
              dur |-> None]
DirSub == [path |-> "sub", name |-> "sub", ext |-> "", kind |-> "dir", size |-> 0, dur |-> None]
FileUpper == [path |-> "sub/c.M4A", name |-> "c.M4A", ext |-> "M4A", kind |-> "file",
              size |-> 10000, dur |-> None]
Tree == <<FileA, FileTxt, DirLocked, ErrLocked, FileB, DirSub, FileA2, FileUpper>>

DefaultEnv == [root |-> "ok", index |-> "present", tree |-> Tree]
\* the source root is there and listable ("ok"), is not there ("missing"),
\* can be entered but not listed ("unlistable"), or is withheld by the system so
\* that every access to it or to a path below it fails ("protected");
\* CloudRecordings.db is a file of the root, which is or is not there
Envs == { e \in [root : {"ok", "missing", "unlistable", "protected"},
                 index : {"present", "missing"}, tree : {<< >>, Tree}] :
              e.root = "missing" => (e.index = "missing" /\ e.tree = << >>) }

\* Path::exists() of the root or of a path below it: true when the metadata
\* call succeeds, false on any error of it
PathExists(root) == root \in {"ok", "unlistable"}

\* a check that finds the index file whatever the file system holds
IndexExistsAlways(e) == TRUE

\* apple_db_path.exists()
IndexExists(e) == PathExists(e.root) /\ e.index = "present"

----------------------------------------------------------------------------
(* process_m4a_file: one file of a migration run *)

\* outcome is what the file system and the database do to this attempt
\* what the environment does to one file: nothing ("ok"), the lookup in the
\* catalog fails, the copy fails, the destination is gone after the copy, the
\* insert fails; "size_mismatch" is a destination that holds fewer bytes than
\* the copy reported
FileOutcomes == {"ok", "lookup_fail", "copy_fail", "verify_fail", "insert_fail"}

\* process_m4a_file from fs::copy on: copy, verification, insert_slice
ProcessM4aFileCopy(cat, dir, f, outcome) ==
    IF outcome = "copy_fail"
    THEN [cat |-> cat, dir |-> dir, res |-> "error", size |-> 0]
    ELSE IF outcome = "verify_fail"
    THEN [cat |-> cat, dir |-> [n \in DOMAIN dir \ {f.name} |-> dir[n]],
          res |-> "error", size |-> 0]
    ELSE LET dir2 == [n \in DOMAIN dir \cup {f.name} |->
                          IF n = f.name
                          THEN (IF outcome = "size_mismatch" THEN 0 ELSE f.size)
                          ELSE dir[n]]
         IN  IF outcome = "insert_fail"
             THEN [cat |-> cat, dir |-> dir2, res |-> "error", size |-> 0]
             ELSE [cat |-> InsertSlice(cat, 0,
                              NewSlice(f.name, None, FALSE, f.size, f.ext,
                                       EstimateTranscriptionTime(f.size, f.dur), f.dur,
                                       None, None, None, None)).cat,
                   dir |-> dir2, res |-> "copied", size |-> f.size]

\* process_m4a_file: the slice_exists check, then the copy
ProcessM4aFile(cat, dir, f, outcome) ==
    IF outcome = "lookup_fail"
    THEN [cat |-> cat, dir |-> dir, res |-> "error", size |-> 0]
    ELSE IF SliceExists(cat, f.name)
    THEN [cat |-> cat, dir |-> dir, res |-> "skipped", size |-> 0]
    ELSE ProcessM4aFileCopy(cat, dir, f, outcome)

----------------------------------------------------------------------------
(* Commands of lib.rs that write the catalog, each taken as one step *)

\* the catalog is kept to MaxSlices records: an insert that would add one more
\* is not taken, an insert of a name that is already there is
CanInsert(name) == Cardinality(DOMAIN catalog) < MaxSlices \/ SliceExists(catalog, name)

WorkersUnchanged == UNCHANGED <<env, migProgress, mig, trProgress, tr, hist>>

CreateTextSlice(title, content) ==
    /\ Cardinality(DOMAIN catalog) < MaxSlices
    /\ LET k == CHOOSE i \in 1 .. Len(TextEntryNames) :
                    /\ ~ SliceExists(catalog, TextEntryNames[i])
                    /\ \A j \in 1 .. (i - 1) : SliceExists(catalog, TextEntryNames[j])
           s == NewSlice(TextEntryNames[k], Some(title), TRUE, TextBytes(content), "text",
                         0, None, Some(content), Some(0), Some(WordCount(content)),
                         Some("manual"))
           r == InsertSlice(catalog, lastRowid, s)
       IN  /\ catalog' = r.cat
           /\ lastRowid' = r.rowid
           /\ ret' = Event("create_text_slice", "ok")
    /\ UNCHANGED audioDir
    /\ WorkersUnchanged

ImportTextFileSlice(f, title) ==
    /\ CanInsert(f.name)
    /\ IF ~ f.readable
       THEN /\ ret' = Event("import_text_file_slice", "io_error")
            /\ UNCHANGED <<catalog, lastRowid>>
       ELSE LET t == IF IsSome(title) THEN title[1] ELSE f.stem
                s == NewSlice(f.name, Some(t), TRUE, TextBytes(f.content), "text",
                              0, None, Some(f.content), Some(0),
                              Some(WordCount(f.content)), Some("imported"))
                r == InsertSlice(catalog, lastRowid, s)
            IN  /\ catalog' = r.cat
                /\ lastRowid' = r.rowid
                /\ ret' = Event("import_text_file_slice", "ok")
    /\ UNCHANGED audioDir
    /\ WorkersUnchanged

ImportAudioSlice(f, title, copyOk) ==
    /\ CanInsert(f.name)
    /\ IF SliceExists(catalog, f.name)
       THEN /\ ret' = Event("import_audio_slice", "already_exists")
            /\ UNCHANGED <<catalog, lastRowid, audioDir>>
       ELSE IF ~ copyOk
       THEN /\ ret' = Event("import_audio_slice", "io_error")
            /\ UNCHANGED <<catalog, lastRowid, audioDir>>
       ELSE LET t == IF IsSome(title) THEN title[1] ELSE Stem(f)
                s == NewSlice(f.name, Some(t), FALSE, f.size, f.ext,
                              ImportEstimate(f.size), f.dur, None, None, None, None)
                r == InsertSlice(catalog, lastRowid, s)
            IN  /\ audioDir' = [n \in DOMAIN audioDir \cup {f.name} |->
                                   IF n = f.name THEN f.size ELSE audioDir[n]]
                /\ catalog' = r.cat
                /\ lastRowid' = r.rowid
                /\ ret' = Event("import_audio_slice", "ok")
    /\ WorkersUnchanged

UpdateSliceName(id, newName) ==
    /\ LET r == UpdateSliceNameDb(catalog, id, newName)
       IN  /\ catalog' = r.cat
           /\ ret' = Event("update_slice_name", r.res)
    /\ UNCHANGED <<lastRowid, audioDir>>
    /\ WorkersUnchanged

\* slice.id is an Option: a record without id is refused before the database is asked
UpdateSlice(optId, s) ==
    /\ IF IsNone(optId)
       THEN /\ ret' = Event("update_slice", "validation_error")
            /\ UNCHANGED catalog
       ELSE LET r == UpdateSliceDb(catalog, optId[1], s)
            IN  /\ catalog' = r.cat
                /\ ret' = Event("update_slice", r.res)
    /\ UNCHANGED <<lastRowid, audioDir>>
    /\ WorkersUnchanged

ClearDatabase ==
    /\ catalog' = << >>
    /\ ret' = Event("clear_database", "ok")
    /\ UNCHANGED <<lastRowid, audioDir>>
    /\ WorkersUnchanged

\* one file of the migration loop, taken through process_m4a_file
MigrateFile(f, outcome) ==
    /\ CanInsert(f.name)
    /\ LET r == ProcessM4aFile(catalog, audioDir, f, outcome)
       IN  /\ catalog' = r.cat
           /\ audioDir' = r.dir
           /\ ret' = Event("migrate_file", r.res)
    /\ UNCHANGED lastRowid
    /\ WorkersUnchanged

\* transcribe_slice_sync from resolution to persistence, as the batch loop sees it
TranscribeSlice(id, engineOk, events, taken) ==
    /\ IF id \notin DOMAIN catalog
       THEN /\ ret' = Event("transcribe_slice", "not_found")
            /\ UNCHANGED catalog
       ELSE IF catalog[id].name \notin DOMAIN audioDir
       THEN /\ ret' = Event("transcribe_slice", "file_missing")
            /\ UNCHANGED catalog
       ELSE IF ~ engineOk
       THEN /\ ret' = Event("transcribe_slice", "engine_error")
            /\ UNCHANGED catalog
       ELSE /\ catalog' = UpdateSliceTranscription(catalog, id, RealTranscribe(events), taken,
                                                   WordCount(RealTranscribe(events)),
                                                   ModelName)
            /\ ret' = Event("transcribe_slice", "ok")
    /\ UNCHANGED <<lastRowid, audioDir>>
    /\ WorkersUnchanged

\* transcribe_for_name: the sanitized text, or the placeholder when it is empty
TranscribeForName(id, sanitized) ==
    IF sanitized = "" THEN PlaceholderNames[id] ELSE sanitized

\* update_slice_names_from_audio, one slice of its loop
AutoName(id, sanitized) ==
    /\ IF id \notin DOMAIN catalog
       THEN /\ ret' = Event("auto_name", "not_found")
            /\ UNCHANGED catalog
       ELSE IF catalog[id].name \notin DOMAIN audioDir
       THEN /\ ret' = Event("auto_name", "file_missing")
            /\ UNCHANGED catalog
       ELSE LET r == UpdateSliceNameDb(catalog, id, TranscribeForName(id, sanitized))
            IN  /\ catalog' = r.cat
                /\ ret' = Event("auto_name", r.res)
    /\ UNCHANGED <<lastRowid, audioDir>>
    /\ WorkersUnchanged

----------------------------------------------------------------------------
(* The catalog and the commands that write it *)

Init ==
    /\ catalog = << >>
    /\ lastRowid = 0
    /\ audioDir = << >>
    /\ ret = Event("init", "ok")
    /\ env = DefaultEnv
    /\ migProgress = None
    /\ mig = [w \in MigWorkers |-> IdleMig]
    /\ trProgress = None
    /\ tr = [w \in TrWorkers |-> IdleTr]
    /\ hist = None

Next ==
    \/ \E t \in {"memo"}, c \in Texts : CreateTextSlice(t, c)
    \/ \E f \in TextFiles, t \in Titles : ImportTextFileSlice(f, t)
    \/ \E f \in PickableFiles, t \in Titles, ok \in BOOLEAN : ImportAudioSlice(f, t, ok)
    \/ \E id \in SliceIds, n \in RenameTargets : UpdateSliceName(id, n)
    \/ \E id \in {None} \cup {Some(i) : i \in SliceIds}, n \in RenameTargets :
           \E s \in UpdatePayloads(n) : UpdateSlice(id, s)
    \/ ClearDatabase
    \/ \E f \in PickableFiles, o \in FileOutcomes : MigrateFile(f, o)
    \/ \E id \in SliceIds, ok \in BOOLEAN, ev \in {StreamPlain}, e \in Elapsed :
           TranscribeSlice(id, ok, ev, e)
    \/ \E id \in SliceIds, n \in {"", "memo"} : AutoName(id, n)

Spec == Init /\ [][Next]_vars

----------------------------------------------------------------------------
(* MigrationEngine::start_migration, run by the task that the start_migration *)
(* command spawns; pc is the position of the task in the function            *)

NewMigrationProgress ==
    [total_recordings |-> 0, processed_recordings |-> 0, failed_recordings |-> 0,
     total_size_bytes |-> 0, processed_size_bytes |-> 0]

\* update_progress(step, total, total_size): writes only into a present snapshot
UpdateProgress(progress, total, totalSize) ==
    IF IsNone(progress) THEN progress
    ELSE Some([progress[1] EXCEPT
                 !.total_recordings = IF IsSome(total) THEN total[1] ELSE @,
                 !.total_size_bytes = IF IsSome(totalSize) THEN totalSize[1] ELSE @])

IsM4a(e) == e.kind = "file" /\ e.ext = "m4a"
\* a scan that gives up at the first entry it cannot read
ScanUntilError(tree) ==
    LET errs == {k \in 1 .. Len(tree) : tree[k].kind = "error"}
        n == IF errs = {} THEN Len(tree) ELSE (CHOOSE k \in errs : \A j \in errs : k <= j) - 1
    IN  SelectSeq(SubSeq(tree, 1, n), IsM4a)
\* scan_m4a_files: the regular files with extension m4a, in the order of the walk;
\* an entry that cannot be read adds one to access_errors and nothing to the list
ScanM4aFiles(tree) == SelectSeq(tree, IsM4a)
AccessErrors(tree) == Cardinality({k \in 1 .. Len(tree) : tree[k].kind = "error"})

RECURSIVE TotalSize(_)
TotalSize(files) == IF files = << >> THEN 0 ELSE Head(files).size + TotalSize(Tail(files))

\* a loop that counts nothing
LoopArmNoCount(m, res) == [m EXCEPT !.idx = @ + 1]

\* the three arms of the match on process_m4a_file's result: the local summary
LoopArm(m, res) ==
    [m EXCEPT !.idx = @ + 1,
              !.copied = IF res = "copied" THEN @ + 1 ELSE @,
              !.skipped = IF res = "skipped" THEN @ + 1 ELSE @,
              !.errors = IF res = "error" THEN @ + 1 ELSE @]

\* ... and the shared snapshot; index is the 0-based position of the file
LoopProgress(progress, index, res, size) ==
    IF IsNone(progress) THEN progress
    ELSE Some([progress[1] EXCEPT
                 !.processed_recordings = index + 1,
                 !.processed_size_bytes = IF res = "copied" THEN @ + size ELSE @,
                 !.failed_recordings = IF res = "error" THEN @ + 1 ELSE @])

\* a spawned task that leaves the snapshot as the engine left it
WrapperKeep(result, progress) == progress

\* the spawned task of lib.rs: an Err of the engine clears the snapshot
WrapperClear(result, progress) == IF result # "ok" THEN None ELSE progress

TotalRuns == mig["m1"].runs + mig["m2"].runs

MigOthersUnchanged == UNCHANGED <<lastRowid, ret, env, trProgress, tr>>

StartMigration(w) ==
    /\ mig[w].pc = "idle"
    /\ TotalRuns < MaxRuns
    /\ migProgress' = Some(NewMigrationProgress)
    /\ mig' = [mig EXCEPT ![w] = [IdleMig EXCEPT !.pc = "open", !.runs = mig[w].runs + 1,
                                                 !.pre = DOMAIN catalog]]
    /\ UNCHANGED <<catalog, audioDir, hist>>
    /\ MigOthersUnchanged

\* fs::create_dir_all(parent)? ; Database::new(path)?
MigOpenDb(w, ok) ==
    /\ mig[w].pc = "open"
    /\ mig' = [mig EXCEPT ![w] = IF ok THEN [@ EXCEPT !.pc = "index"]
                                 ELSE [@ EXCEPT !.pc = "returned", !.result = "db_open_failed"]]
    /\ UNCHANGED <<catalog, audioDir, hist, migProgress>>
    /\ MigOthersUnchanged

MigCheckIndex(w) ==
    /\ mig[w].pc = "index"
    /\ IF ~ IndexExists(env)
       THEN /\ migProgress' = UpdateProgress(migProgress, Some(0), Some(0))
            /\ mig' = [mig EXCEPT ![w].pc = "sleep", ![w].result = "index_missing"]
       ELSE /\ mig' = [mig EXCEPT ![w].pc = "copy"]
            /\ UNCHANGED migProgress
    /\ UNCHANGED <<catalog, audioDir, hist>>
    /\ MigOthersUnchanged

\* after the five seconds of sleep: the snapshot is cleared and the error returned
MigSleepAbort(w) ==
    /\ mig[w].pc = "sleep"
    /\ migProgress' = None
    /\ mig' = [mig EXCEPT ![w].pc = "returned"]
    /\ UNCHANGED <<catalog, audioDir, hist>>
    /\ MigOthersUnchanged

MigCopyTable(w, ok) ==
    /\ mig[w].pc = "copy"
    /\ mig' = [mig EXCEPT ![w] = IF ok THEN [@ EXCEPT !.pc = "root"]
                                 ELSE [@ EXCEPT !.pc = "returned",
                                                 !.result = "index_copy_failed"]]
    /\ UNCHANGED <<catalog, audioDir, hist, migProgress>>
    /\ MigOthersUnchanged

MigCheckRoot(w) ==
    /\ mig[w].pc = "root"
    /\ IF env.root = "ok"
       THEN /\ mig' = [mig EXCEPT ![w].pc = "scan"]
            /\ UNCHANGED migProgress
       ELSE /\ migProgress' = UpdateProgress(migProgress, Some(0), Some(0))
            /\ mig' = [mig EXCEPT ![w].pc = "sleep",
                                   ![w].result = IF ~ PathExists(env.root)
                                                 THEN "root_missing"
                                                 ELSE "root_permission_denied"]
    /\ UNCHANGED <<catalog, audioDir, hist>>
    /\ MigOthersUnchanged

\* scan_m4a_files, the empty case, and the publication of the totals
MigScan(w) ==
    /\ mig[w].pc = "scan"
    /\ LET files == ScanM4aFiles(env.tree)
       IN  IF files = << >>
           THEN /\ migProgress' = None
                /\ mig' = [mig EXCEPT ![w].pc = "returned", ![w].result = "ok"]
           ELSE /\ migProgress' = UpdateProgress(migProgress, Some(Len(files)),
                                                 Some(TotalSize(files)))
                /\ mig' = [mig EXCEPT ![w].pc = "mkdest", ![w].files = files]
    /\ UNCHANGED <<catalog, audioDir, hist>>
    /\ MigOthersUnchanged

MigMkDest(w, ok) ==
    /\ mig[w].pc = "mkdest"
    /\ mig' = [mig EXCEPT ![w] = IF ok THEN [@ EXCEPT !.pc = "loop"]
                                 ELSE [@ EXCEPT !.pc = "returned",
                                                 !.result = "dest_dir_failed"]]
    /\ UNCHANGED <<catalog, audioDir, hist, migProgress>>
    /\ MigOthersUnchanged

\* one iteration of the file loop, in two steps:
\* process_m4a_file up to the answer of db.slice_exists(filename)?
MigFileCheck(w, outcome) ==
    /\ mig[w].pc = "loop"
    /\ mig[w].idx < Len(mig[w].files)
    /\ LET f == mig[w].files[mig[w].idx + 1]
       IN  IF outcome = "lookup_fail" \/ SliceExists(catalog, f.name)
           THEN LET r == ProcessM4aFile(catalog, audioDir, f, outcome)
                IN  /\ mig' = [mig EXCEPT ![w] = LoopArm(@, r.res)]
                    /\ migProgress' = LoopProgress(migProgress, mig[w].idx, r.res, r.size)
           ELSE /\ mig' = [mig EXCEPT ![w].pc = "copying"]
                /\ UNCHANGED migProgress
    /\ UNCHANGED <<catalog, audioDir, hist>>
    /\ MigOthersUnchanged

\* the rest of process_m4a_file and the arm of the loop that takes its result;
\* inserted counts the records this run added to the catalog
MigFileCopy(w, outcome) ==
    /\ mig[w].pc = "copying"
    /\ LET f == mig[w].files[mig[w].idx + 1]
           r == ProcessM4aFileCopy(catalog, audioDir, f, outcome)
       IN  /\ catalog' = r.cat
           /\ audioDir' = r.dir
           /\ mig' = [mig EXCEPT ![w] = [LoopArm(@, r.res) EXCEPT
                          !.pc = "loop",
                          !.inserted = @ + Cardinality(DOMAIN r.cat \ DOMAIN catalog)]]
           /\ migProgress' = LoopProgress(migProgress, mig[w].idx, r.res, r.size)
    /\ UNCHANGED hist
    /\ MigOthersUnchanged

\* "Migration completed!", the snapshot cleared, Ok(())
MigFinish(w) ==
    /\ mig[w].pc = "loop"
    /\ mig[w].idx = Len(mig[w].files)
    /\ migProgress' = None
    /\ mig' = [mig EXCEPT ![w].pc = "returned", ![w].result = "ok"]
    /\ UNCHANGED <<catalog, audioDir, hist>>
    /\ MigOthersUnchanged

\* the task of lib.rs takes the engine's result and ends
MigReturn(w) ==
    /\ mig[w].pc = "returned"
    /\ migProgress' = WrapperClear(mig[w].result, migProgress)
    /\ hist' = Some([catalog |-> catalog, audioDir |-> audioDir, result |-> mig[w].result,
                     discovered |-> Len(mig[w].files), copied |-> mig[w].copied,
                     skipped |-> mig[w].skipped, errors |-> mig[w].errors])
    /\ mig' = [mig EXCEPT ![w].pc = "idle"]
    /\ UNCHANGED <<catalog, audioDir>>
    /\ MigOthersUnchanged

MigStep(w) ==
    \/ StartMigration(w)
    \/ \E ok \in BOOLEAN : MigOpenDb(w, ok)
    \/ MigCheckIndex(w)
    \/ MigSleepAbort(w)
    \/ \E ok \in BOOLEAN : MigCopyTable(w, ok)
    \/ MigCheckRoot(w)
    \/ MigScan(w)
    \/ \E ok \in BOOLEAN : MigMkDest(w, ok)
    \/ \E o \in {"ok", "lookup_fail"} : MigFileCheck(w, o)
    \/ \E o \in FileOutcomes \ {"lookup_fail"} : MigFileCopy(w, o)
    \/ MigFinish(w)
    \/ MigReturn(w)

InitMigration ==
    /\ catalog = << >>
    /\ lastRowid = 0
    /\ audioDir = << >>
    /\ ret = Event("init", "ok")
    /\ env \in Envs
    /\ migProgress = None
    /\ mig = [w \in MigWorkers |-> IdleMig]
    /\ trProgress = None
    /\ tr = [w \in TrWorkers |-> IdleTr]
    /\ hist = None

\* start_migration invoked at any time, also while a run is under way, and a
\* destination file that is cut short behind the copy
NextMigration ==
    \/ \E w \in MigWorkers : MigStep(w)
    \/ \E w \in MigWorkers : MigFileCopy(w, "size_mismatch")

SpecMigration == InitMigration /\ [][NextMigration]_vars

\* one run after the other, and nothing else touching the catalog
NextSequential == MigStep("m1")

SpecSequential == InitMigration /\ [][NextSequential]_vars

----------------------------------------------------------------------------
(* Properties of the migration engine *)

SecondRunDone ==
    /\ mig["m1"].runs = 2
    /\ mig["m1"].pc = "returned"
    /\ mig["m1"].result = "ok"
    /\ IsSome(hist)
    /\ hist[1].result = "ok"

C2_FailureCountedAndSkipped ==
    /\ [][\A w \in MigWorkers, o \in FileOutcomes :
            (\/ MigFileCheck(w, o) /\ o = "lookup_fail"
             \/ MigFileCopy(w, o) /\ o \in {"copy_fail", "verify_fail", "insert_fail"})
            => /\ mig'[w].errors = mig[w].errors + 1
               /\ mig'[w].idx = mig[w].idx + 1
               /\ mig'[w].pc = "loop"
               /\ mig'[w].result = "none"]_vars
    /\ [](\A w \in MigWorkers :
            (mig[w].pc = "returned" /\ mig[w].files # << >>
             /\ mig[w].result # "dest_dir_failed")
            => /\ mig[w].result = "ok"
               /\ mig[w].idx = Len(mig[w].files)
               /\ mig[w].copied + mig[w].skipped + mig[w].errors = Len(mig[w].files))

C2_Witness ==
    \E w \in MigWorkers :
        /\ mig[w].pc = "returned"
        /\ mig[w].result = "ok"
        /\ mig[w].errors = 2
        /\ mig[w].copied = 1
        /\ mig[w].idx = 3

\* C3: once every migration run has ended, on whichever exit path, the shared
\* migration snapshot is None.
C3_NoStaleSnapshot ==
    (\A w \in MigWorkers : mig[w].pc = "idle") => migProgress = None

C3_Witness ==
    /\ \A w \in MigWorkers : mig[w].pc = "idle"
    /\ IsSome(hist)
    /\ hist[1].result = "index_copy_failed"
    /\ migProgress = None

\* C10, migration side: between two successive states of the shared snapshot
\* that no batch start separates, processed_recordings, failed_recordings and
\* processed_size_bytes do not decrease.
C10_MigrationCountersMonotone ==
    [][(/\ IsSome(migProgress)
        /\ IsSome(migProgress')
        /\ ~ \E w \in MigWorkers : StartMigration(w))
       => /\ migProgress'[1].processed_recordings >= migProgress[1].processed_recordings
          /\ migProgress'[1].failed_recordings >= migProgress[1].failed_recordings
          /\ migProgress'[1].processed_size_bytes >= migProgress[1].processed_size_bytes]_vars

----------------------------------------------------------------------------
(* The transcription progress cell (backend/transcribe.rs) and the batch     *)
(* that transcribe_slices runs on the blocking pool (lib.rs)                 *)

\* init_transcription_progress
InitTranscriptionProgress(total, estimated) ==
    Some([total_slices |-> total, completed_slices |-> 0, failed_slices |-> 0,
          current_slice_id |-> None, estimated_total_seconds |-> estimated,
          is_active |-> TRUE])

\* start_current_slice / update_transcription_progress
SetCurrentSlice(progress, id) ==
    IF IsNone(progress) THEN progress
    ELSE Some([progress[1] EXCEPT !.current_slice_id = Some(id)])

MarkSliceCompleted(progress) ==
    IF IsNone(progress) THEN progress
    ELSE Some([progress[1] EXCEPT !.completed_slices = @ + 1])

\* a failure counted as a completion
MarkSliceFailedAsCompleted(progress) ==
    IF IsNone(progress) THEN progress
    ELSE Some([progress[1] EXCEPT !.completed_slices = @ + 1])

MarkSliceFailed(progress) ==
    IF IsNone(progress) THEN progress
    ELSE Some([progress[1] EXCEPT !.failed_slices = @ + 1])

\* a completion that leaves the snapshot active
KeepTranscriptionProgress(progress) == progress

\* clear_transcription_progress keeps the snapshot and marks it inactive
ClearTranscriptionProgress(progress) ==
    IF IsNone(progress) THEN progress
    ELSE Some([progress[1] EXCEPT !.is_active = FALSE])

\* a filter that keeps every id
FilterSliceIdsKeepAll(cat, ids, skip) == ids

\* the ids the command keeps, by config.skip_already_transcribed
FilterSliceIds(cat, ids, skip) ==
    IF skip
    THEN SelectSeq(ids, LAMBDA id : id \in DOMAIN cat /\ ~ cat[id].transcribed)
    ELSE ids

RECURSIVE EstimatedTotalSeconds(_, _)
EstimatedTotalSeconds(cat, ids) ==
    IF ids = << >> THEN 0
    ELSE (IF Head(ids) \in DOMAIN cat THEN cat[Head(ids)].est ELSE 0)
         + EstimatedTotalSeconds(cat, Tail(ids))

IdLists == {<<1, 2>>, <<2>>, <<3, 1>>}

TotalBatches == tr["t1"].batches + tr["t2"].batches

TrOthersUnchanged == UNCHANGED <<lastRowid, ret, env, migProgress, mig, hist>>

\* the command: filter, early return when nothing is left, spawn
TranscribeSlices(w, ids, skip) ==
    /\ tr[w].pc = "idle"
    /\ TotalBatches < MaxBatches
    /\ LET filtered == FilterSliceIds(catalog, ids, skip)
       IN  IF filtered = << >>
           THEN UNCHANGED tr
           ELSE tr' = [tr EXCEPT ![w] =
                         [IdleTr EXCEPT !.pc = "spawned", !.ids = filtered,
                                        !.est = EstimatedTotalSeconds(catalog, filtered),
                                        !.batches = tr[w].batches + 1,
                                        !.requested = ids, !.skip = skip]]
    /\ UNCHANGED <<catalog, audioDir, trProgress>>
    /\ TrOthersUnchanged

\* Database::new in the task; Ok initialises the snapshot, Err marks it complete
TrOpenDb(w, ok) ==
    /\ tr[w].pc = "spawned"
    /\ IF ok
       THEN /\ trProgress' = InitTranscriptionProgress(Len(tr[w].ids), tr[w].est)
            /\ tr' = [tr EXCEPT ![w].pc = "loop"]
       ELSE /\ trProgress' = ClearTranscriptionProgress(trProgress)
            /\ tr' = [tr EXCEPT ![w].pc = "idle"]
    /\ UNCHANGED <<catalog, audioDir>>
    /\ TrOthersUnchanged

\* transcribe_slice_sync up to start_current_slice
TrResolve(w) ==
    /\ tr[w].pc = "loop"
    /\ tr[w].i < Len(tr[w].ids)
    /\ LET id == tr[w].ids[tr[w].i + 1]
       IN  IF id \notin DOMAIN catalog
           THEN /\ tr' = [tr EXCEPT ![w].pc = "mark", ![w].outcome = "not_found"]
                /\ UNCHANGED trProgress
           ELSE IF catalog[id].name \notin DOMAIN audioDir
           THEN /\ tr' = [tr EXCEPT ![w].pc = "mark", ![w].outcome = "file_missing"]
                /\ UNCHANGED trProgress
           ELSE /\ tr' = [tr EXCEPT ![w].pc = "transcribing"]
                /\ trProgress' = SetCurrentSlice(trProgress, id)
    /\ UNCHANGED <<catalog, audioDir>>
    /\ TrOthersUnchanged

\* sync_transcribe, then the "Saving transcription..." progress update
TrEngine(w, ok, events) ==
    /\ tr[w].pc = "transcribing"
    /\ IF ok
       THEN /\ tr' = [tr EXCEPT ![w].pc = "saving", ![w].text = RealTranscribe(events)]
            /\ trProgress' = SetCurrentSlice(trProgress, tr[w].ids[tr[w].i + 1])
       ELSE /\ tr' = [tr EXCEPT ![w].pc = "mark", ![w].outcome = "engine_error"]
            /\ UNCHANGED trProgress
    /\ UNCHANGED <<catalog, audioDir>>
    /\ TrOthersUnchanged

\* update_slice_transcription(id, text, time_taken, word_count, model)?
TrSave(w, ok, taken) ==
    /\ tr[w].pc = "saving"
    /\ IF ok
       THEN /\ catalog' = UpdateSliceTranscription(catalog, tr[w].ids[tr[w].i + 1],
                                                   tr[w].text, taken,
                                                   WordCount(tr[w].text), ModelName)
            /\ tr' = [tr EXCEPT ![w].pc = "mark", ![w].outcome = "ok"]
       ELSE /\ tr' = [tr EXCEPT ![w].pc = "mark", ![w].outcome = "save_error"]
            /\ UNCHANGED catalog
    /\ UNCHANGED <<audioDir, trProgress>>
    /\ TrOthersUnchanged

\* a loop that steps over the next id
LoopAdvanceByTwo(t) ==
    [t EXCEPT !.pc = "loop", !.i = @ + 2, !.text = << >>, !.outcome = "none",
              !.done = Append(@, t.ids[t.i + 1])]

\* for slice_id in filtered_slice_ids: the outcome of this id is recorded (done
\* keeps the ids whose outcome was recorded, in that order), the next id is taken
LoopAdvance(t) ==
    [t EXCEPT !.pc = "loop", !.i = @ + 1, !.text = << >>, !.outcome = "none",
              !.done = Append(@, t.ids[t.i + 1])]

\* the loop body of the task: mark_slice_failed on Err, mark_slice_completed on Ok
TrMark(w) ==
    /\ tr[w].pc = "mark"
    /\ trProgress' = IF tr[w].outcome = "ok" THEN MarkSliceCompleted(trProgress)
                     ELSE MarkSliceFailed(trProgress)
    /\ tr' = [tr EXCEPT ![w] = LoopAdvance(@)]
    /\ UNCHANGED <<catalog, audioDir>>
    /\ TrOthersUnchanged

TrFinish(w) ==
    /\ tr[w].pc = "loop"
    /\ tr[w].i = Len(tr[w].ids)
    /\ trProgress' = ClearTranscriptionProgress(trProgress)
    /\ tr' = [tr EXCEPT ![w].pc = "idle"]
    /\ UNCHANGED <<catalog, audioDir>>
    /\ TrOthersUnchanged

\* a file of the managed audio directory is removed behind the program's back
ExternalDelete(name) ==
    /\ name \in DOMAIN audioDir
    /\ audioDir' = [n \in DOMAIN audioDir \ {name} |-> audioDir[n]]
    /\ UNCHANGED <<catalog, trProgress, tr>>
    /\ TrOthersUnchanged

TrStep(w) ==
    \/ \E ids \in IdLists, skip \in BOOLEAN : TranscribeSlices(w, ids, skip)
    \/ \E ok \in BOOLEAN : TrOpenDb(w, ok)
    \/ TrResolve(w)
    \/ \E ok \in BOOLEAN, ev \in EventStreams : TrEngine(w, ok, ev)
    \/ \E ok \in BOOLEAN, e \in Elapsed : TrSave(w, ok, e)
    \/ TrMark(w)
    \/ TrFinish(w)

\* the catalog after a migration of a.m4a and b.m4a
MigratedCatalog ==
    ProcessM4aFile(ProcessM4aFile(<< >>, << >>, FileA, "ok").cat,
                   ProcessM4aFile(<< >>, << >>, FileA, "ok").dir, FileB, "ok")

InitTranscription ==
    /\ catalog = MigratedCatalog.cat
    /\ lastRowid = 0
    /\ audioDir = MigratedCatalog.dir
    /\ ret = Event("init", "ok")
    /\ env = DefaultEnv
    /\ migProgress = None
    /\ mig = [w \in MigWorkers |-> IdleMig]
    /\ trProgress = None
    /\ tr = [w \in TrWorkers |-> IdleTr]
    /\ hist = None

\* transcribe_slices invoked at any time, also while a batch is under way
NextTranscription ==
    \/ \E w \in TrWorkers : TrStep(w)
    \/ \E n \in AudioNames : ExternalDelete(n)

SpecTranscription == InitTranscription /\ [][NextTranscription]_vars

\* one migration task and one transcription task
NextLifecycle ==
    \/ MigStep("m1")
    \/ TrStep("t1")

SpecLifecycle == InitMigration /\ [][NextLifecycle]_vars

----------------------------------------------------------------------------
(* Properties of the catalog *)

\* C4: no two slices of the catalog have the same original_audio_file_name.
C4_UniqueFileNames ==
    \A i \in DOMAIN catalog, j \in DOMAIN catalog :
        i # j => catalog[i].name # catalog[j].name

\* import_text_file_slice of n.txt accepted while slice 1 already carries that
\* name and another slice was inserted after it: the insert was ignored
C4_Witness ==
    /\ ret = Event("import_text_file_slice", "ok")
    /\ DOMAIN catalog = {1, 2}
    /\ catalog[1].name = "n.txt"
    /\ catalog[2].name # "n.txt"
    /\ lastRowid = 2

NameTakenByOther(id, name) ==
    \E j \in DOMAIN catalog : j # id /\ catalog[j].name = name

\* C5: update_slice_name and update_slice answer 'already exists' whenever a
\* slice with another id has the target file name, and then no record of the
\* catalog changes.
C5_ConflictRefused ==
    [][/\ ret'.op = "update_slice_name" =>
            \A id \in SliceIds, n \in RenameTargets :
                (NameTakenByOther(id, n) /\ UpdateSliceName(id, n))
                => (ret'.res = "already_exists" /\ catalog' = catalog)
       /\ ret'.op = "update_slice" =>
            \A id \in SliceIds, n \in RenameTargets :
                NameTakenByOther(id, n) =>
                    \A s \in UpdatePayloads(n) :
                        UpdateSlice(Some(id), s)
                        => (ret'.res = "already_exists" /\ catalog' = catalog)]_vars

C5_Witness ==
    /\ ret = Event("update_slice", "already_exists")
    /\ Cardinality(DOMAIN catalog) = 2
    /\ \E i \in DOMAIN catalog, j \in DOMAIN catalog :
          i # j /\ catalog[i].name = "a.m4a" /\ catalog[j].name = "b.m4a"

TranscriptionFieldsPresent(s) ==
    /\ IsSome(s.transcription)
    /\ IsSome(s.word_count)
    /\ IsSome(s.time_taken)
    /\ IsSome(s.model)

\* C6 as stated: every slice with transcribed == true has transcription,
\* word count, time taken and model present.
C6_TranscribedHasResults ==
    \A id \in DOMAIN catalog :
        catalog[id].transcribed => TranscriptionFieldsPresent(catalog[id])

\* C6 amended: a slice that is transcribed and lacks one of the four fields
\* enters the catalog only through update_slice; after any other operation
\* every such slice was already such a slice before it.
C6_OnlyUpdateSliceBreaksResults ==
    [][ret'.op # "update_slice" =>
         \A id \in DOMAIN catalog' :
            (catalog'[id].transcribed /\ ~ TranscriptionFieldsPresent(catalog'[id]))
            => /\ id \in DOMAIN catalog
               /\ catalog[id].transcribed
               /\ ~ TranscriptionFieldsPresent(catalog[id])]_vars

C6_Witness ==
    /\ ret = Event("transcribe_slice", "ok")
    /\ \E id \in DOMAIN catalog :
          /\ catalog[id].transcribed
          /\ catalog[id].model = Some(ModelName)
          /\ catalog[id].title = None
          /\ catalog[id].est = 1
    /\ \E id \in DOMAIN catalog :
          catalog[id].transcribed /\ ~ TranscriptionFieldsPresent(catalog[id])

\* C7 as stated: every slice of the catalog has estimated_time_to_transcribe
\* of at least 1.
C7_EstimateAtLeastOne ==
    \A id \in DOMAIN catalog : catalog[id].est >= 1

\* C7 amended: a slice created by migration or by import_audio_slice has an
\* estimate of at least 1; a slice created by create_text_slice or by
\* import_text_file_slice has the estimate 0.
C7_EstimateByOrigin ==
    [][\A id \in DOMAIN catalog' \ DOMAIN catalog :
          /\ ret'.op \in {"migrate_file", "import_audio_slice"} => catalog'[id].est >= 1
          /\ ret'.op \in {"create_text_slice", "import_text_file_slice"}
                => catalog'[id].est = 0]_vars

C7_Witness ==
    \E i \in DOMAIN catalog, j \in DOMAIN catalog :
        /\ catalog[i].ftype = "text"
        /\ catalog[i].est = 0
        /\ catalog[j].name = "b.m4a"
        /\ catalog[j].est = 1
        /\ catalog[j].title = Some("b")

----------------------------------------------------------------------------
(* Properties of the transcription batch and of the progress cells *)

\* C8: when the audio file of a slice of the batch is missing, the attempt ends
\* with the file-missing error without touching the catalog, failed_slices
\* goes up by exactly one, completed_slices stays, and the batch moves on to
\* the next slice.
C8_MissingFileCountsAsFailed ==
    [][\A w \in TrWorkers :
         /\ (/\ TrResolve(w)
             /\ tr[w].ids[tr[w].i + 1] \in DOMAIN catalog
             /\ catalog[tr[w].ids[tr[w].i + 1]].name \notin DOMAIN audioDir)
            => /\ tr'[w].outcome = "file_missing"
               /\ tr'[w].pc = "mark"
               /\ catalog' = catalog
               /\ trProgress' = trProgress
         /\ (TrMark(w) /\ tr[w].outcome = "file_missing")
            => /\ IsSome(trProgress)
               /\ trProgress'[1].failed_slices = trProgress[1].failed_slices + 1
               /\ trProgress'[1].completed_slices = trProgress[1].completed_slices
               /\ catalog' = catalog
               /\ tr'[w].pc = "loop"
               /\ tr'[w].i = tr[w].i + 1]_vars

\* a.m4a was removed; slice 1 failed and stays untranscribed, slice 2 was
\* transcribed after it in the same batch
C8_Witness ==
    /\ tr["t1"].pc = "idle"
    /\ tr["t2"].batches = 0
    /\ tr["t1"].batches = 1
    /\ "a.m4a" \notin DOMAIN audioDir
    /\ IsSome(trProgress)
    /\ trProgress[1].total_slices = 2
    /\ trProgress[1].failed_slices = 1
    /\ trProgress[1].completed_slices = 1
    /\ ~ catalog[1].transcribed
    /\ catalog[2].transcribed

----------------------------------------------------------------------------
(* Order of a transcription batch *)

InFlight(w) == tr[w].pc \in {"transcribing", "saving", "mark"}

\* C11: a batch works through its filtered id list in the order given, one
\* slice at a time: the ids whose outcome has been recorded are always the
\* first i of the list, the slice in flight is the one at position i + 1, and
\* while no other batch has touched the snapshot it shows that slice as the
\* current one and completed + failed = i.
C11_SequentialInOrder ==
    \A w \in TrWorkers :
        /\ tr[w].i <= Len(tr[w].ids)
        /\ tr[w].done = SubSeq(tr[w].ids, 1, tr[w].i)
        /\ InFlight(w) => tr[w].i < Len(tr[w].ids)
        /\ (tr[w].pc \in {"loop", "transcribing", "saving", "mark"}
            /\ \A v \in TrWorkers \ {w} : tr[v].batches = 0)
           => /\ IsSome(trProgress)
              /\ trProgress[1].completed_slices + trProgress[1].failed_slices = tr[w].i
              /\ tr[w].pc \in {"transcribing", "saving"}
                    => trProgress[1].current_slice_id = Some(tr[w].ids[tr[w].i + 1])

\* the batch <<3, 1>>, unfiltered: 3 failed first, 1 is in flight after it
C11_Witness ==
    /\ tr["t1"].ids = <<3, 1>>
    /\ tr["t1"].done = <<3>>
    /\ tr["t1"].pc = "saving"
    /\ tr["t2"].batches = 0
    /\ trProgress[1].failed_slices = 1
    /\ trProgress[1].current_slice_id = Some(1)

-----------------------------------------------------------------------------
(* The two estimate functions applied to one file size and duration *)

MaxSizeUnits == 24
SizeUnit == 131072
EstimateSizes == {k * SizeUnit : k \in 0..MaxSizeUnits} \cup {10000}
EstimateDurations == {None} \cup {Some(d) : d \in {0, 5, 17, 18, 60, 600, 601}}

EstimateAtMigration ==
    /\ ret' = Event("estimate_transcription_time",
                    EstimateTranscriptionTime(env.size, env.dur))
    /\ UNCHANGED <<catalog, lastRowid, audioDir, env, migProgress, mig, trProgress, tr, hist>>

EstimateAtStart ==
    /\ ret' = Event("start_current_slice",
                    StartCurrentSliceEstimate(env.size, env.dur))
    /\ UNCHANGED <<catalog, lastRowid, audioDir, env, migProgress, mig, trProgress, tr, hist>>

InitEstimate ==
    /\ catalog = << >>
    /\ lastRowid = 0
    /\ audioDir = << >>
    /\ ret = Event("none", 0)
    /\ env \in [size : EstimateSizes, dur : EstimateDurations]
    /\ migProgress = None
    /\ mig = [w \in MigWorkers |-> IdleMig]
    /\ trProgress = None
    /\ tr = [w \in TrWorkers |-> IdleTr]
    /\ hist = None

NextEstimate == EstimateAtMigration \/ EstimateAtStart

SpecEstimate == InitEstimate /\ [][NextEstimate]_vars

\* C12 as stated: the estimate stored at migration equals the per-slice
\* estimate of start_current_slice for the same size and duration, whether
\* the duration is known or not.
C12_EstimateEqualsPerSlice ==
    ret.op = "estimate_transcription_time"
        => ret.res = StartCurrentSliceEstimate(env.size, env.dur)

\* C12: with a known duration d the estimate stored at migration is the
\* least integer >= max(1, d*35/600) and equals the per-slice estimate; with an
\* unknown duration it is at least 1 and is size*35/(10 MiB) rounded to the
\* nearest integer (half up), which is the per-slice estimate or one less.
C12_EstimateCeilOrNearest ==
    ret.op = "estimate_transcription_time"
        => /\ ret.res >= 1
           /\ IsSome(env.dur)
                => /\ ret.res * RatePer >= env.dur[1] * RateSeconds
                   /\ ret.res > 1 => (ret.res - 1) * RatePer < env.dur[1] * RateSeconds
                   /\ ret.res = StartCurrentSliceEstimate(env.size, env.dur)
           /\ IsNone(env.dur)
                => /\ env.size * 7 < ret.res * 2 * MiB + MiB
                   /\ ret.res > 1 => ret.res * 2 * MiB - MiB <= env.size * 7
                   /\ StartCurrentSliceEstimate(env.size, env.dur) - ret.res \in {0, 1}

C12_Witness ==
    /\ ret = Event("estimate_transcription_time", 4)
    /\ env = [size |-> 10 * SizeUnit, dur |-> None]
    /\ StartCurrentSliceEstimate(env.size, env.dur) = 5

-----------------------------------------------------------------------------
(* The summary of a run against the catalog *)

LoopDone(w) == mig[w].pc = "loop" /\ mig[w].idx = Len(mig[w].files)

\* C13: when a run has completed its file loop, copied + skipped + errors is
\* the number of files the scan discovered, the records that were in the
\* catalog when the run started are still there, and the run has added exactly
\* one record per file it counted as copied.
C13_SummaryMatchesCatalog ==
    \A w \in MigWorkers :
        LoopDone(w)
            => /\ mig[w].copied + mig[w].skipped + mig[w].errors = Len(mig[w].files)
               /\ mig[w].pre \subseteq DOMAIN catalog
               /\ mig[w].inserted = mig[w].copied

\* a run that counted two files as copied and added no record
C13_Witness ==
    \E w \in MigWorkers :
        /\ LoopDone(w)
        /\ mig[w].copied = 2
        /\ mig[w].inserted = 0
        /\ Cardinality(DOMAIN catalog) = 2

\* C13 for a run that no other run overlaps: the same counts, and the catalog
\* has grown by exactly copied since the run started.
C13_SingleRunSummaryMatchesCatalog ==
    (LoopDone("m1") /\ mig["m2"].runs = 0)
        => /\ mig["m1"].copied + mig["m1"].skipped + mig["m1"].errors = Len(mig["m1"].files)
           /\ mig["m1"].pre \subseteq DOMAIN catalog
           /\ mig["m1"].inserted = mig["m1"].copied
           /\ Cardinality(DOMAIN catalog) = Cardinality(mig["m1"].pre) + mig["m1"].copied

-----------------------------------------------------------------------------
(* The scan *)

Scanned(w) == mig[w].pc \in {"mkdest", "loop", "copying"}
FilesOf(w) == {mig[w].files[k] : k \in 1 .. Len(mig[w].files)}
AsciiLower(ext) == CASE ext = "M4A" -> "m4a" [] ext = "M4a" -> "m4a" [] OTHER -> ext

\* C14: the scan selects a regular file of the tree if and only if its
\* extension is 'm4a' without regard to case: m4a, M4A and M4a are selected.
C14_ScanIgnoresCase ==
    \A w \in MigWorkers :
        Scanned(w)
            => \A k \in 1 .. Len(env.tree) :
                   (env.tree[k] \in FilesOf(w))
                       <=> (env.tree[k].kind = "file" /\ AsciiLower(env.tree[k].ext) = "m4a")

\* a scan over the tree that holds sub/c.M4A has selected the three .m4a files
\* and not that one
C14_Witness ==
    /\ mig["m1"].pc = "mkdest"
    /\ FileUpper \in {env.tree[k] : k \in 1 .. Len(env.tree)}
    /\ FilesOf("m1") = {FileA, FileB, FileA2}

\* C14 with the comparison the scan makes: a regular file is selected if and
\* only if its extension is exactly 'm4a'.
C14_ScanSelectsExactM4a ==
    \A w \in MigWorkers :
        Scanned(w)
            => \A k \in 1 .. Len(env.tree) :
                   (env.tree[k] \in FilesOf(w))
                       <=> (env.tree[k].kind = "file" /\ env.tree[k].ext = "m4a")

-----------------------------------------------------------------------------
(* The index file and the source root *)

\* the root is there and readable, and holds no CloudRecordings.db
IndexMerelyMissing == env.root = "ok" /\ env.index = "missing"

\* the file is there and the root lets it be seen
IndexReachable == env.index = "present" /\ env.root \in {"ok", "unlistable"}

PastIndexCheck(w) == mig[w].pc \in {"copy", "root", "scan", "mkdest", "loop", "copying"}

\* C15 as stated: a run is aborted on account of CloudRecordings.db only when
\* the file is unreachable for a reason other than being missing; a run over a
\* root where the file is merely missing is not aborted for it.
C15_MissingIndexDoesNotAbort ==
    \A w \in MigWorkers :
        mig[w].result \in {"index_missing", "index_copy_failed"} => ~ IndexMerelyMissing

\* C15: a run goes past the index check only when CloudRecordings.db exists
\* at the source root; when it does not exist, merely missing included, the
\* run ends with the index-not-found error having scanned and copied nothing.
C15_MissingIndexAborts ==
    \A w \in MigWorkers :
        /\ PastIndexCheck(w) => IndexReachable
        /\ (~ IndexReachable /\ mig[w].pc \in {"sleep", "returned"})
                => /\ mig[w].result \in {"index_missing", "db_open_failed"}
                   /\ mig[w].files = << >>
                   /\ mig[w].copied = 0

C15_Witness ==
    /\ IndexMerelyMissing
    /\ env.tree = Tree
    /\ mig["m1"].pc = "returned"
    /\ mig["m1"].result = "index_missing"
    /\ mig["m1"].files = << >>
    /\ catalog = << >>

\* C16 as stated: a run that ends on account of the location of its source
\* reports the permission error when the root (holding the index file) cannot
\* be accessed for lack of permission, and a not-found error when the root
\* does not exist; the two causes never end in the same error.
C16_RootCausesDistinguished ==
    \A w \in MigWorkers :
        mig[w].result \in {"index_missing", "root_missing", "root_permission_denied"}
            => /\ env.root = "missing"
                    => mig[w].result \in {"index_missing", "root_missing"}
               /\ (env.root \in {"unlistable", "protected"} /\ env.index = "present")
                    => mig[w].result = "root_permission_denied"

\* a run over a root withheld by the system, index file in place, has ended
\* with the error of a root that does not exist
C16_Witness ==
    /\ env.root = "protected"
    /\ env.index = "present"
    /\ mig["m1"].pc = "returned"
    /\ mig["m1"].result = "index_missing"

\* C16 for a root that can be entered: a root that exists and cannot be listed
\* ends the run with the permission error, and no run scans a root that is not
\* there and listable.
C16_UnlistableRootIsPermissionError ==
    \A w \in MigWorkers :
        /\ mig[w].pc \in {"scan", "mkdest", "loop", "copying"} => env.root = "ok"
        /\ mig[w].result = "root_permission_denied"
                => (env.root = "unlistable" /\ env.index = "present")
        /\ (env.root = "unlistable" /\ mig[w].result # "none")
                => mig[w].result \in {"root_permission_denied", "db_open_failed",
                                      "index_missing", "index_copy_failed"}
        /\ (env.root \in {"missing", "protected"} /\ mig[w].result # "none")
                => mig[w].result \in {"index_missing", "db_open_failed"}

-----------------------------------------------------------------------------
(* Updates that name a slice the catalog does not hold *)

\* C17 as stated: update_slice_name and update_slice with an id that is not in
\* the catalog answer 'not found' and leave the catalog unchanged.
C17_UnknownIdNotFound ==
    [][/\ ret'.op = "update_slice_name" =>
            \A id \in SliceIds \ DOMAIN catalog, n \in RenameTargets :
                UpdateSliceName(id, n)
                => (ret'.res = "not_found" /\ catalog' = catalog)
       /\ ret'.op = "update_slice" =>
            \A id \in SliceIds \ DOMAIN catalog, n \in RenameTargets :
                \A s \in UpdatePayloads(n) :
                    UpdateSlice(Some(id), s)
                    => (ret'.res = "not_found" /\ catalog' = catalog)]_vars

\* C17: update_slice_name and update_slice with an id that is not in the
\* catalog fail and leave the catalog unchanged; the answer is 'already exists'
\* when a slice of the catalog has the target file name, 'not found' otherwise.
C17_UnknownIdRefused ==
    [][/\ ret'.op = "update_slice_name" =>
            \A id \in SliceIds \ DOMAIN catalog, n \in RenameTargets :
                UpdateSliceName(id, n)
                => /\ catalog' = catalog
                   /\ ret'.res = IF \E j \in DOMAIN catalog : catalog[j].name = n
                                 THEN "already_exists" ELSE "not_found"
       /\ ret'.op = "update_slice" =>
            \A id \in SliceIds \ DOMAIN catalog, n \in RenameTargets :
                \A s \in UpdatePayloads(n) :
                    UpdateSlice(Some(id), s)
                    => /\ catalog' = catalog
                       /\ ret'.res = IF \E j \in DOMAIN catalog : catalog[j].name = n
                                     THEN "already_exists" ELSE "not_found"]_vars

C17_Witness ==
    /\ ret = Event("update_slice_name", "not_found")
    /\ DOMAIN catalog = {1}
    /\ catalog[1].name = "a.m4a"

-----------------------------------------------------------------------------
(* What a successful transcription writes *)

TextHelloWorld == <<"hello", " ", "world">>
TextBlanks == <<" ", "hello", " ", " ", "big", " ", "world">>

\* the transcript each stream of EventStreams stands for, written out
ExpectedTranscript(ev) ==
    CASE ev = StreamPlain -> TextHelloWorld
      [] ev = StreamBlanks -> TextBlanks
      [] ev = StreamDownloadOnly -> << >>

\* the number of whitespace-delimited words of each of these transcripts
ExpectedWords(t) ==
    CASE t = TextHelloWorld -> 2
      [] t = TextBlanks -> 3
      [] t = << >> -> 0

ResultFields(s) == <<s.transcribed, s.transcription, s.time_taken, s.word_count, s.model>>

\* C18: the transcript handed to the catalog is the texts of the stream's
\* segments in arrival order with one blank between consecutive segments,
\* download events adding nothing; a step either leaves the five result fields
\* of a slice as they were or is the one update of a batch saving that slice,
\* which sets transcribed, the transcript, the elapsed seconds, the count of
\* whitespace-delimited words and the model id together and nothing else; no
\* state shows a slice with only some of the five written.
C18_ResultsWrittenTogether ==
    /\ [][/\ \A w \in TrWorkers, ev \in EventStreams :
               TrEngine(w, TRUE, ev) => tr'[w].text = ExpectedTranscript(ev)
          /\ \A id \in DOMAIN catalog :
               \/ ResultFields(catalog'[id]) = ResultFields(catalog[id])
               \/ \E w \in TrWorkers, e \in Elapsed :
                     /\ tr[w].pc = "saving"
                     /\ tr[w].ids[tr[w].i + 1] = id
                     /\ catalog'[id] =
                           [catalog[id] EXCEPT
                               !.transcribed = TRUE,
                               !.transcription = Some(tr[w].text),
                               !.time_taken = Some(e),
                               !.word_count = Some(ExpectedWords(tr[w].text)),
                               !.model = Some(ModelName)]]_vars
    /\ [](\A id \in DOMAIN catalog :
            IF catalog[id].transcribed
            THEN /\ IsSome(catalog[id].transcription)
                 /\ IsSome(catalog[id].time_taken)
                 /\ catalog[id].word_count = Some(ExpectedWords(catalog[id].transcription[1]))
                 /\ catalog[id].model = Some(ModelName)
            ELSE /\ IsNone(catalog[id].transcription)
                 /\ IsNone(catalog[id].time_taken)
                 /\ IsNone(catalog[id].word_count)
                 /\ IsNone(catalog[id].model))

C18_Witness ==
    /\ DOMAIN catalog = {1, 2}
    /\ catalog[1].transcribed
    /\ catalog[1].transcription = Some(TextBlanks)
    /\ catalog[1].word_count = Some(3)
    /\ catalog[1].time_taken = Some(2)
    /\ catalog[1].model = Some(ModelName)
    /\ ~ catalog[2].transcribed
    /\ tr["t1"].pc = "mark"
    /\ tr["t1"].outcome = "ok"

-----------------------------------------------------------------------------
(* Ids that do not resolve to a slice *)

Unknown(ids) == {k \in 1 .. Len(ids) : ids[k] \notin DOMAIN catalog}
BatchEnd(w) == tr[w].pc = "loop" /\ tr[w].i = Len(tr[w].ids)
Alone(w) == \A v \in TrWorkers \ {w} : tr[v].batches = 0

\* C19 as stated: whatever skip_already_transcribed is, every id handed to a
\* batch that does not resolve to a slice has been given an outcome when the
\* batch ends and is counted in failed_slices.
C19_UnknownIdCountedFailed ==
    \A w \in TrWorkers :
        (BatchEnd(w) /\ Alone(w))
            => /\ \A k \in Unknown(tr[w].requested) :
                      \E j \in 1 .. Len(tr[w].done) : tr[w].done[j] = tr[w].requested[k]
               /\ IsSome(trProgress)
               /\ trProgress[1].failed_slices >= Cardinality(Unknown(tr[w].requested))

\* C19: with skip_already_transcribed off the batch takes the ids as given,
\* and an id that does not resolve to a slice ends as a 'not found' failure
\* that adds one to failed_slices; with skip_already_transcribed on such an id
\* is dropped before the batch starts and is part of neither total_slices nor
\* failed_slices.
C19_UnknownIdFailsUnlessFiltered ==
    /\ [][\A w \in TrWorkers :
            (TrMark(w) /\ tr[w].ids[tr[w].i + 1] \notin DOMAIN catalog)
            => /\ tr[w].outcome = "not_found"
               /\ ~ tr[w].skip
               /\ IsSome(trProgress)
                    => trProgress'[1].failed_slices = trProgress[1].failed_slices + 1]_vars
    /\ [](\A w \in TrWorkers :
            /\ (tr[w].batches > 0 /\ ~ tr[w].skip) => tr[w].ids = tr[w].requested
            /\ (tr[w].batches > 0 /\ tr[w].skip)
                    => /\ Unknown(tr[w].ids) = {}
                       /\ Len(tr[w].ids) <= Len(tr[w].requested) - Cardinality(Unknown(tr[w].requested))
            /\ (BatchEnd(w) /\ Alone(w))
                    => /\ IsSome(trProgress)
                       /\ trProgress[1].total_slices = Len(tr[w].ids)
                       /\ trProgress[1].failed_slices >= Cardinality(Unknown(tr[w].ids)))

C19_Witness ==
    /\ tr["t1"].requested = <<3, 1>>
    /\ tr["t1"].skip
    /\ tr["t1"].ids = <<1>>
    /\ BatchEnd("t1")
    /\ Alone("t1")
    /\ trProgress[1].total_slices = 1
    /\ trProgress[1].failed_slices = 0
    /\ trProgress[1].completed_slices = 1

-----------------------------------------------------------------------------
(* populate_audio_durations: the repair of corrupt durations, then the pass *)
(* over the slices without duration; the command holds the database for    *)
(* both, the audio directory can change in between                          *)

CorruptThreshold == 86400
DurationValues == {None, Some(60), Some(86400), Some(100000)}
ProbeValues == {None, Some(30)}

\* ... WHERE audio_time_length_seconds >= 86400
ClearCorruptAtThreshold(cat) ==
    [id \in DOMAIN cat |->
        IF IsSome(cat[id].dur) /\ cat[id].dur[1] >= CorruptThreshold
        THEN [cat[id] EXCEPT !.dur = None] ELSE cat[id]]

\* UPDATE slices SET audio_time_length_seconds = NULL
\*   WHERE audio_time_length_seconds > 86400
ClearCorruptAudioDurations(cat) ==
    [id \in DOMAIN cat |->
        IF IsSome(cat[id].dur) /\ cat[id].dur[1] > CorruptThreshold
        THEN [cat[id] EXCEPT !.dur = None] ELSE cat[id]]

\* SELECT ... WHERE audio_time_length_seconds IS NULL
GetSlicesWithoutDuration(cat) == {id \in DOMAIN cat : IsNone(cat[id].dur)}

\* the loop of populate_audio_durations: probe[n] is what get_audio_duration
\* returns for the file n, stored[id] whether update_slice_audio_duration
\* returns Ok
PopulatePass(cat, dir, probe, stored) ==
    [id \in DOMAIN cat |->
        IF /\ id \in GetSlicesWithoutDuration(cat)
           /\ cat[id].name \in DOMAIN dir
           /\ IsSome(probe[cat[id].name])
           /\ stored[id]
        THEN [cat[id] EXCEPT !.dur = probe[cat[id].name]]
        ELSE cat[id]]

UpdatedCount(cat, cat2) == Cardinality({id \in DOMAIN cat : cat2[id] # cat[id]})

\* db.clear_corrupt_audio_durations(): an Err is logged and the command goes on
PopClear(ok) ==
    /\ ret.op # "clear_corrupt_audio_durations"
    /\ catalog' = IF ok THEN ClearCorruptAudioDurations(catalog) ELSE catalog
    /\ ret' = Event("clear_corrupt_audio_durations", IF ok THEN "ok" ELSE "error")
    /\ hist' = Some([before |-> catalog, updated_count |-> 0])
    /\ UNCHANGED <<lastRowid, audioDir, env, migProgress, mig, trProgress, tr>>

\* get_slices_without_duration and the loop; Ok(updated_count)
PopPass(probe, stored) ==
    /\ ret.op = "clear_corrupt_audio_durations"
    /\ catalog' = PopulatePass(catalog, audioDir, probe, stored)
    /\ ret' = Event("populate_audio_durations", "ok")
    /\ hist' = Some([hist[1] EXCEPT !.updated_count =
                        UpdatedCount(catalog, PopulatePass(catalog, audioDir, probe, stored))])
    /\ UNCHANGED <<lastRowid, audioDir, env, migProgress, mig, trProgress, tr>>

InitDurations ==
    /\ \E d1 \in DurationValues, d2 \in DurationValues :
          catalog = [id \in DOMAIN MigratedCatalog.cat |->
                        [MigratedCatalog.cat[id] EXCEPT !.dur = IF id = 1 THEN d1 ELSE d2]]
    /\ lastRowid = 0
    /\ audioDir = MigratedCatalog.dir
    /\ ret = Event("init", "ok")
    /\ env = DefaultEnv
    /\ migProgress = None
    /\ mig = [w \in MigWorkers |-> IdleMig]
    /\ trProgress = None
    /\ tr = [w \in TrWorkers |-> IdleTr]
    /\ hist = None

NextDurations ==
    \/ \E ok \in BOOLEAN : PopClear(ok)
    \/ \E probe \in [AudioNames -> ProbeValues], stored \in [DOMAIN catalog -> BOOLEAN] :
           PopPass(probe, stored)
    \/ \E n \in AudioNames : ExternalDelete(n)

SpecDurations == InitDurations /\ [][NextDurations]_vars

\* C20: a clear_corrupt_audio_durations that succeeds turns every duration
\* above 86400 into null and leaves every other duration, and everything else
\* of the record, as it was; the pass that follows gives a slice without
\* duration the probed value when its audio file is there, the probe succeeds
\* and the write is accepted, leaves it null when the probe fails or the file
\* is missing, and never changes a duration that is not null.
C20_RepairThenRepopulate ==
    [][/\ (ret'.op = "clear_corrupt_audio_durations" /\ ret'.res = "ok")
            => \A id \in DOMAIN catalog :
                   /\ catalog'[id] = [catalog[id] EXCEPT !.dur = catalog'[id].dur]
                   /\ catalog'[id].dur =
                         IF catalog[id].dur \in {Some(d) : d \in 0 .. 86400} \cup {None}
                         THEN catalog[id].dur ELSE None
       /\ \A probe \in [AudioNames -> ProbeValues], stored \in [DOMAIN catalog -> BOOLEAN] :
             PopPass(probe, stored)
             => \A id \in DOMAIN catalog :
                   /\ catalog'[id] = [catalog[id] EXCEPT !.dur = catalog'[id].dur]
                   /\ IsSome(catalog[id].dur) => catalog'[id].dur = catalog[id].dur
                   /\ (IsNone(catalog[id].dur) /\ catalog[id].name \notin DOMAIN audioDir)
                         => IsNone(catalog'[id].dur)
                   /\ (IsNone(catalog[id].dur) /\ IsNone(probe[catalog[id].name]))
                         => IsNone(catalog'[id].dur)
                   /\ (/\ IsNone(catalog[id].dur)
                       /\ catalog[id].name \in DOMAIN audioDir
                       /\ IsSome(probe[catalog[id].name])
                       /\ stored[id])
                         => catalog'[id].dur = probe[catalog[id].name]]_vars

\* slice 1 had a duration above 86400 and has the probed one, slice 2 has kept
\* its duration of exactly 86400
C20_Witness ==
    /\ ret = Event("populate_audio_durations", "ok")
    /\ IsSome(hist)
    /\ hist[1].updated_count = 1
    /\ hist[1].before[1].dur = Some(100000)
    /\ hist[1].before[2].dur = Some(86400)
    /\ catalog[1].dur = Some(30)
    /\ catalog[2].dur = Some(86400)

-----------------------------------------------------------------------------
(* transcribe_for_name on the characters of the transcribed text *)

TakeLimit == 50
MaxTextLen == 3
UnsafeChars == {"/", "\\", ":", "*", "?", "\"", "<", ">", "|"}
Whitespace == {" ", "\t"}
Alphabet == {"a", " ", "/", ":"}

\* the texts of at most MaxTextLen characters, and the same after 48 letters
ShortTexts == UNION {[1 .. n -> Alphabet] : n \in 0 .. MaxTextLen}
Padding == [k \in 1 .. (TakeLimit - 2) |-> "a"]
NameTexts == ShortTexts \cup {Padding \o t : t \in ShortTexts}

\* the whole text, however long
TakeAll(s, n) == s

\* .chars().take(n)
Take(s, n) == SubSeq(s, 1, IF Len(s) < n THEN Len(s) ELSE n)

\* .replace(|c| matches!(c, '/' | '\\' | ':' | '*' | '?' | '"' | '<' | '>' | '|'), "")
IsSafe(c) == c \notin UnsafeChars
RemoveUnsafe(s) == SelectSeq(s, IsSafe)

\* .trim()
RECURSIVE TrimStart(_)
TrimStart(s) ==
    IF s # << >> /\ Head(s) \in Whitespace THEN TrimStart(Tail(s)) ELSE s
RECURSIVE TrimEnd(_)
TrimEnd(s) ==
    IF s # << >> /\ s[Len(s)] \in Whitespace THEN TrimEnd(SubSeq(s, 1, Len(s) - 1)) ELSE s
Trim(s) == TrimEnd(TrimStart(s))

SanitizeName(text) == Trim(RemoveUnsafe(Take(text, TakeLimit)))

\* format!("Slice {}", slice_id)
Placeholder(id) == <<"S", "l", "i", "c", "e", " ", ToString(id)>>

\* transcribe_for_name from the transcribed text on
TranscribeForNameChars(id, text) ==
    IF SanitizeName(text) = << >> THEN Placeholder(id) ELSE SanitizeName(text)

NameFromText ==
    /\ ret' = Event("transcribe_for_name", TranscribeForNameChars(env.id, env.text))
    /\ UNCHANGED <<catalog, lastRowid, audioDir, env, migProgress, mig, trProgress, tr, hist>>

InitNaming ==
    /\ catalog = << >>
    /\ lastRowid = 0
    /\ audioDir = << >>
    /\ ret = Event("none", << >>)
    /\ env \in [id : {1, 2}, text : NameTexts]
    /\ migProgress = None
    /\ mig = [w \in MigWorkers |-> IdleMig]
    /\ trProgress = None
    /\ tr = [w \in TrWorkers |-> IdleTr]
    /\ hist = None

NextNaming == NameFromText

SpecNaming == InitNaming /\ [][NextNaming]_vars

\* the positions of the first 50 characters that hold a character that is
\* neither unsafe nor whitespace
Solid(text) ==
    {k \in 1 .. Len(text) : k <= 50 /\ text[k] \notin UnsafeChars \cup Whitespace}

\* C21: the name returned by transcribe_for_name is never empty, has no unsafe
\* character and no whitespace at either end; when the first 50 characters
\* hold something besides unsafe characters and whitespace it is those
\* characters from the first to the last such one with the unsafe ones left
\* out, and otherwise it is the placeholder made of the slice id.
C21_NameSanitized ==
    ret.op = "transcribe_for_name"
        => LET r == ret.res
               t == env.text
           IN  /\ r # << >>
               /\ \A k \in 1 .. Len(r) : r[k] \notin UnsafeChars
               /\ r[1] \notin Whitespace
               /\ r[Len(r)] \notin Whitespace
               /\ Len(r) <= 50
               /\ IF Solid(t) = {}
                  THEN r = <<"S", "l", "i", "c", "e", " ", ToString(env.id)>>
                  ELSE LET a == CHOOSE k \in Solid(t) : \A j \in Solid(t) : k <= j
                           b == CHOOSE k \in Solid(t) : \A j \in Solid(t) : j <= k
                           kept == {k \in a .. b : t[k] \notin UnsafeChars}
                       IN  /\ Len(r) = Cardinality(kept)
                           /\ \A n \in 1 .. Len(r) :
                                 \E k \in kept :
                                     /\ Cardinality({j \in kept : j <= k}) = n
                                     /\ r[n] = t[k]

\* a text of 51 characters: 48 letters, a colon, a blank, a letter; the name
\* is the 48 letters
C21_Witness ==
    /\ ret.op = "transcribe_for_name"
    /\ env.text = Padding \o <<":", " ", "a">>
    /\ ret.res = Padding

\* a text of unsafe characters and blanks only: the placeholder
C21_WitnessPlaceholder ==
    /\ ret.op = "transcribe_for_name"
    /\ env = [id |-> 2, text |-> <<"/", " ", ":">>]
    /\ ret.res = <<"S", "l", "i", "c", "e", " ", "2">>

----------------------------------------------------------------------------
(* C22: the verification that follows the copy *)

\* the file a run is holding between the catalog lookup and the copy
FileInHand(w) == mig[w].files[mig[w].idx + 1]

\* the step of run w that ends process_m4a_file counted the file as copied
CountedCopied(w) == mig[w].pc = "copying" /\ mig'[w].copied = mig[w].copied + 1

\* the destination is there after the step and holds the bytes the copy reported
DestinationVerified(w) ==
    /\ FileInHand(w).name \in DOMAIN audioDir'
    /\ audioDir'[FileInHand(w).name] = FileInHand(w).size

\* C22: a file is counted as copied, and a record is inserted for it, only if
\* after the copy the destination exists and its size equals the size the copy
\* reported; when either check fails no record is created
C22_CopiedOnlyIfVerified ==
    [][\A w \in MigWorkers :
          (mig[w].pc = "copying" /\ mig'[w].pc = "loop") =>
              /\ CountedCopied(w) => DestinationVerified(w)
              /\ ~ DestinationVerified(w) => catalog' = catalog]_vars

\* a record of the catalog whose destination file holds fewer bytes than the
\* record and the copy reported, in a run that counted it as copied
C22_Witness ==
    /\ \E w \in MigWorkers : mig[w].copied > 0
    /\ \E id \in DOMAIN catalog :
          /\ catalog[id].name \in DOMAIN audioDir
          /\ audioDir[catalog[id].name] < catalog[id].size

\* the check the code does make: a file counted as copied is at the destination
C22_CopiedOnlyIfExists ==
    [][\A w \in MigWorkers :
          CountedCopied(w) => FileInHand(w).name \in DOMAIN audioDir']_vars

----------------------------------------------------------------------------
(* C23: what the scan returns *)

Entries == {env.tree[k] : k \in 1 .. Len(env.tree)}

\* C23: the scan returns every regular file with extension m4a at any depth of
\* the root, each once, and nothing else; an entry that cannot be read is
\* passed over and the files that follow it are still returned
C23_ScanFindsEveryM4a ==
    \A w \in MigWorkers :
        Scanned(w) =>
            /\ \A e \in Entries : (e.kind = "file" /\ e.ext = "m4a") => e \in FilesOf(w)
            /\ \A f \in FilesOf(w) : f \in Entries /\ f.kind = "file" /\ f.ext = "m4a"
            /\ Len(mig[w].files) = Cardinality(FilesOf(w))

\* a scan over a root with one unreadable directory has passed notes.txt and
\* the error, and holds b.m4a and sub/a.m4a, which the walk yields after the error
C23_Witness ==
    /\ Scanned("m1")
    /\ AccessErrors(env.tree) = 1
    /\ FileTxt \in Entries
    /\ mig["m1"].files = <<FileA, FileB, FileA2>>

----------------------------------------------------------------------------
(* C24: what a rename leaves alone *)

\* the columns of a slice other than original_audio_file_name
OtherFields == {"title", "transcribed", "size", "ftype", "est", "dur", "transcription",
                "time_taken", "word_count", "model"}

\* C24: a successful update_slice_name(id, name) changes only the file name of
\* slice id: its other columns, every other slice, the audio directory and
\* the row counter are as before; renaming a slice to the name it already has
\* succeeds and changes nothing
C24_RenameChangesOnlyName ==
    [][ret'.op = "update_slice_name" =>
          \A id \in SliceIds, n \in RenameTargets :
              UpdateSliceName(id, n) =>
                  /\ ret'.res = "ok" =>
                        /\ id \in DOMAIN catalog
                        /\ DOMAIN catalog' = DOMAIN catalog
                        /\ catalog'[id].name = n
                        /\ \A fld \in OtherFields : catalog'[id][fld] = catalog[id][fld]
                        /\ \A j \in DOMAIN catalog \ {id} : catalog'[j] = catalog[j]
                        /\ audioDir' = audioDir
                        /\ lastRowid' = lastRowid
                  /\ (id \in DOMAIN catalog /\ catalog[id].name = n) =>
                        (ret'.res = "ok" /\ catalog' = catalog)]_vars

\* a transcribed slice that was renamed to 'memo' and still has its transcript
C24_Witness ==
    /\ ret = Event("update_slice_name", "ok")
    /\ \E id \in DOMAIN catalog :
          /\ catalog[id].name = "memo"
          /\ catalog[id].transcribed
          /\ IsSome(catalog[id].transcription)
          /\ IsSome(catalog[id].word_count)

----------------------------------------------------------------------------
(* C25: the counters of the transcription snapshot *)

Counted == trProgress[1].completed_slices + trProgress[1].failed_slices

\* C25: in every state of the snapshot completed_slices + failed_slices is at
\* most total_slices, also when a second batch is started while an earlier one
\* is running; when a batch ends the sum equals total_slices
C25_CountsWithinTotal ==
    /\ IsSome(trProgress) => Counted <= trProgress[1].total_slices
    /\ \A w \in TrWorkers :
          BatchEnd(w) => (IsSome(trProgress) /\ Counted = trProgress[1].total_slices)

\* two batches under way and more slices counted than the snapshot's total
C25_Witness ==
    /\ IsSome(trProgress)
    /\ Counted > trProgress[1].total_slices
    /\ tr["t1"].batches > 0
    /\ tr["t2"].batches > 0

\* the same for a batch that has the snapshot to itself
C25_SingleBatchCountsWithinTotal ==
    \A w \in TrWorkers :
        (Alone(w) /\ tr[w].pc \in {"loop", "transcribing", "saving", "mark"}) =>
            /\ IsSome(trProgress)
            /\ Counted = tr[w].i
            /\ Counted <= trProgress[1].total_slices
            /\ BatchEnd(w) => Counted = trProgress[1].total_slices

----------------------------------------------------------------------------
(* C26: a batch and the catalog commands of the window *)

\* the batch task works on its own connection, so clear_database and
\* update_slice of the window are served between any two statements of the
\* task; two batches side by side are the subject of SpecTranscription
NextCatalogRace ==
    \/ TrStep("t1")
    \/ ClearDatabase
    \/ \E id \in {1}, n \in {"a.m4a"} : \E s \in UpdatePayloads(n) : UpdateSlice(Some(id), s)

SpecCatalogRace == InitTranscription /\ [][NextCatalogRace]_vars

\* the step of task w that counts the slice in hand as completed
CountsCompleted(w) ==
    /\ tr[w].pc = "mark"
    /\ tr[w].outcome = "ok"
    /\ tr'[w].i = tr[w].i + 1

SliceInHand(w) == tr[w].ids[tr[w].i + 1]

\* C26: whenever a batch counts a slice as completed, the catalog at that
\* moment holds that slice with transcribed true and a transcript stored,
\* whatever clear_database, update_slice or a second batch did in between
C26_CompletedMeansStored ==
    [][\A w \in TrWorkers :
          CountsCompleted(w) =>
              /\ SliceInHand(w) \in DOMAIN catalog
              /\ catalog[SliceInHand(w)].transcribed
              /\ IsSome(catalog[SliceInHand(w)].transcription)]_vars

\* the save of slice 1 went through after clear_database emptied the catalog,
\* and the task is about to count the slice as completed
C26_Witness ==
    /\ tr["t1"].pc = "mark"
    /\ tr["t1"].outcome = "ok"
    /\ SliceInHand("t1") = 1
    /\ ret = Event("clear_database", "ok")
    /\ catalog = << >>

----------------------------------------------------------------------------
(* C27: the audio file of a slice *)

\* the audio of slice id can be resolved: audio_dir/original_audio_file_name exists
Resolvable(cat, dir, id) == cat[id].name \in DOMAIN dir

\* every record a step adds for an audio file has its file
NewAudioHasFile ==
    \A id \in DOMAIN catalog' \ DOMAIN catalog :
        catalog'[id].ftype # "text" => Resolvable(catalog', audioDir', id)

\* every slice whose audio could be resolved before a step can be resolved after it
StaysResolvable ==
    \A id \in DOMAIN catalog \cap DOMAIN catalog' :
        Resolvable(catalog, audioDir, id) => Resolvable(catalog', audioDir', id)

\* C27: the audio file of a slice created by migration or import_audio_slice
\* exists after any sequence of migration, import, update_slice_name,
\* update_slice and auto-naming: a slice that could be resolved before a
\* rename can be resolved after it
C27_AudioFileFollowsSlice == [][NewAudioHasFile /\ StaysResolvable]_vars

\* the slice made from sub/a.m4a was renamed to 'memo'; the file in the audio
\* directory is still a.m4a and there is no file 'memo'
C27_Witness ==
    /\ ret = Event("update_slice_name", "ok")
    /\ "a.m4a" \in DOMAIN audioDir
    /\ "memo" \notin DOMAIN audioDir
    /\ \E id \in DOMAIN catalog :
          /\ catalog[id].name = "memo"
          /\ catalog[id].size = FileA2.size
          /\ ~ catalog[id].transcribed

\* the steps that detach a slice from its file are the renames: after any
\* other operation every slice that could be resolved still can
C27_OnlyRenamesDetach ==
    [][(ret'.op \notin {"update_slice_name", "update_slice", "auto_name"})
          => (NewAudioHasFile /\ StaysResolvable)]_vars

----------------------------------------------------------------------------
(* C28: what Ok(id) of insert_slice stands for *)

\* the commands that hand back the id of insert_slice
InsertCommands == {"create_text_slice", "import_text_file_slice", "import_audio_slice"}

\* the step added exactly one record, and the id handed back is that record's
ExactlyOneNew ==
    /\ DOMAIN catalog \subseteq DOMAIN catalog'
    /\ DOMAIN catalog' \ DOMAIN catalog = {lastRowid'}
    /\ \A id \in DOMAIN catalog : catalog'[id] = catalog[id]

\* C28: whenever insert_slice returns Ok(id) exactly one new record was
\* created, its id is the returned id and its name the inserted name; every
\* successful create_text_slice, import_text_file_slice and import_audio_slice
\* increases the number of records by exactly one
C28_OkInsertAddsOne ==
    [][(ret'.op \in InsertCommands /\ ret'.res = "ok") =>
          /\ ExactlyOneNew
          /\ Cardinality(DOMAIN catalog') = Cardinality(DOMAIN catalog) + 1
          /\ ret'.op = "import_text_file_slice" =>
                \A f \in TextFiles : f.readable => catalog'[lastRowid'].name = f.name]_vars

\* n.txt was imported a second time: the command answered Ok, the id it
\* handed back is that of another record, and n.txt is there once
C28_Witness ==
    /\ ret = Event("import_text_file_slice", "ok")
    /\ lastRowid \in DOMAIN catalog
    /\ catalog[lastRowid].name # "n.txt"
    /\ Cardinality({id \in DOMAIN catalog : catalog[id].name = "n.txt"}) = 1

\* what holds of every successful insert command: the name is in the catalog
\* once afterwards, and a name that was not there before is a new record
\* whose id is handed back
C28_OkInsertNameStored ==
    [][(ret'.op \in InsertCommands /\ ret'.res = "ok") =>
          \/ ExactlyOneNew
          \/ catalog' = catalog /\ lastRowid' = lastRowid]_vars

----------------------------------------------------------------------------
(* C29: the three global locks of backend/transcribe.rs.                     *)
(* In this specification env holds the owner of each lock, hist the threads  *)
(* (two batch tasks, one poller) and trProgress the snapshot.                *)

MaxLockBatches == 1

\* TRANSCRIPTION_PROGRESS, TRANSCRIPTION_START_TIME, CURRENT_SLICE_START_TIME
Locks == {"progress", "start", "slice"}
LockThreads == TrWorkers \cup {"ui"}

Acq(l) == [op |-> "acq", lock |-> l]
Rel(l) == [op |-> "rel", lock |-> l]
\* the code that runs under the guard of the snapshot
Body == [op |-> "body", lock |-> "progress"]

\* a start_current_slice that starts the slice timer before it takes the snapshot
LockPlanTimerFirst(fn) ==
    IF fn = "start_current_slice"
    THEN <<Acq("slice"), Acq("progress"), Body>>
    ELSE <<Acq("progress"), Body>>

\* every function begins with TRANSCRIPTION_PROGRESS.lock()
LockPlan(fn) == <<Acq("progress"), Body>>

\* what the function writes to the snapshot while it holds the guard
BodyEffect(fn, progress) ==
    CASE fn = "init_transcription_progress" -> InitTranscriptionProgress(1, 0)
      [] fn = "start_current_slice" -> SetCurrentSlice(progress, 1)
      [] fn = "update_transcription_progress" -> SetCurrentSlice(progress, 1)
      [] fn = "mark_slice_completed" -> MarkSliceCompleted(progress)
      [] fn = "mark_slice_failed" -> MarkSliceFailed(progress)
      [] fn = "clear_transcription_progress" -> ClearTranscriptionProgress(progress)
      [] OTHER -> progress

\* the locks the function takes and gives back after that, by the snapshot it
\* found: a guard bound with let lives to the end of its block, a guard in the
\* head of an if let or of an expression to the end of that statement
LocksAfterBody(fn, progress) ==
    CASE fn = "get_transcription_progress" ->
             <<Rel("progress")>> \o
             (IF IsSome(progress) /\ progress[1].is_active
              THEN <<Acq("start"), Rel("start"), Acq("slice"), Rel("slice")>>
              ELSE << >>)
      [] fn = "init_transcription_progress" ->
             <<Acq("start"), Acq("slice"), Rel("slice"), Rel("start"), Rel("progress")>>
      [] fn = "start_current_slice" ->
             <<Acq("slice"), Rel("slice"), Rel("progress")>>
      [] fn = "update_transcription_progress" ->
             (IF IsSome(progress) THEN <<Acq("start"), Rel("start")>> ELSE << >>)
             \o <<Rel("progress")>>
      [] fn = "clear_transcription_progress" ->
             <<Rel("progress")>> \o
             (IF IsSome(progress) THEN <<Acq("start"), Rel("start")>> ELSE << >>)
      [] OTHER -> <<Rel("progress")>>

\* the calls of one batch task, in the order of lib.rs and transcribe_slice_sync
WorkerCalls ==
    << {"init_transcription_progress"}, {"start_current_slice"},
       {"update_transcription_progress"},
       {"mark_slice_completed", "mark_slice_failed"},
       {"clear_transcription_progress"} >>

IdleThread == [fn |-> "none", prog |-> << >>, call |-> 0, batches |-> 0]

\* the thread goes on with the rest of the function, or returns from it
Advance(th, rest) ==
    [th EXCEPT !.prog = rest, !.fn = IF rest = << >> THEN "none" ELSE @]

LocksOthersUnchanged ==
    UNCHANGED <<catalog, lastRowid, audioDir, ret, migProgress, mig, tr>>

\* a batch task calls its next progress function; the poller polls
Call(t) ==
    /\ hist[t].prog = << >>
    /\ IF t \in TrWorkers
       THEN /\ hist[t].batches < MaxLockBatches
            /\ \E fn \in WorkerCalls[hist[t].call + 1] :
                  hist' = [hist EXCEPT ![t] =
                             [fn |-> fn, prog |-> LockPlan(fn),
                              call |-> (hist[t].call + 1) % Len(WorkerCalls),
                              batches |-> hist[t].batches +
                                  (IF hist[t].call + 1 = Len(WorkerCalls) THEN 1 ELSE 0)]]
       ELSE hist' = [hist EXCEPT ![t].fn = "get_transcription_progress",
                                 ![t].prog = LockPlan("get_transcription_progress")]
    /\ UNCHANGED <<env, trProgress>>
    /\ LocksOthersUnchanged

\* Mutex::lock: the thread goes on when the lock is free, and waits otherwise
Acquire(t) ==
    /\ hist[t].prog # << >>
    /\ Head(hist[t].prog).op = "acq"
    /\ env[Head(hist[t].prog).lock] = "none"
    /\ env' = [env EXCEPT ![Head(hist[t].prog).lock] = t]
    /\ hist' = [hist EXCEPT ![t] = Advance(@, Tail(hist[t].prog))]
    /\ UNCHANGED trProgress
    /\ LocksOthersUnchanged

\* the guard is dropped
Release(t) ==
    /\ hist[t].prog # << >>
    /\ Head(hist[t].prog).op = "rel"
    /\ env' = [env EXCEPT ![Head(hist[t].prog).lock] = "none"]
    /\ hist' = [hist EXCEPT ![t] = Advance(@, Tail(hist[t].prog))]
    /\ UNCHANGED trProgress
    /\ LocksOthersUnchanged

\* the function reads or writes the snapshot under its guard
UnderGuard(t) ==
    /\ hist[t].prog # << >>
    /\ Head(hist[t].prog).op = "body"
    /\ trProgress' = BodyEffect(hist[t].fn, trProgress)
    /\ hist' = [hist EXCEPT ![t] = Advance(@, LocksAfterBody(hist[t].fn, trProgress))]
    /\ UNCHANGED env
    /\ LocksOthersUnchanged

ThreadStep(t) == Call(t) \/ Acquire(t) \/ Release(t) \/ UnderGuard(t)

InitLocks ==
    /\ catalog = << >>
    /\ lastRowid = 0
    /\ audioDir = << >>
    /\ ret = Event("init", "ok")
    /\ env = [l \in Locks |-> "none"]
    /\ migProgress = None
    /\ mig = [w \in MigWorkers |-> IdleMig]
    /\ trProgress = None
    /\ tr = [w \in TrWorkers |-> IdleTr]
    /\ hist = [t \in LockThreads |-> IdleThread]

NextLocks == \E t \in LockThreads : ThreadStep(t)

\* a thread that can run does run; a batch is finite
SpecLocks == InitLocks /\ [][NextLocks]_vars /\ \A t \in LockThreads : WF_vars(ThreadStep(t))

Rank(l) == CASE l = "progress" -> 1 [] l = "start" -> 2 [] l = "slice" -> 3
Held(t) == {l \in Locks : env[l] = t}
Wants(t, l) == hist[t].prog # << >> /\ Head(hist[t].prog) = Acq(l)
Blocked(t) == \E l \in Locks : Wants(t, l) /\ env[l] # "none"

\* every lock a thread asks for comes after the locks it holds, in the one
\* order snapshot, batch start time, slice start time
LockOrderRespected ==
    \A t \in LockThreads, l \in Locks :
        Wants(t, l) => \A h \in Held(t) : Rank(h) < Rank(l)

\* no set of threads in which each waits for a lock held by one of the set
NoWaitCycle ==
    \A W \in SUBSET LockThreads :
        W # {} => \E t \in W : ~ \E l \in Locks : Wants(t, l) /\ env[l] \in W

\* C29: the progress functions of the batch tasks and the pollers of
\* get_transcription_progress do not deadlock: the three global locks are
\* never asked for in conflicting orders, no threads wait for each other, and
\* every poll returns
C29_NoDeadlockPollsReturn ==
    /\ [](LockOrderRespected /\ NoWaitCycle)
    /\ (hist["ui"].fn = "get_transcription_progress") ~> (hist["ui"].fn = "none")

\* the poller reads the batch start time while a batch task, holding the
\* snapshot, waits for it, and the other batch task waits for the snapshot
C29_Witness ==
    /\ env["start"] = "ui"
    /\ env["progress"] = "t1"
    /\ Wants("t1", "start")
    /\ Wants("t2", "progress")

----------------------------------------------------------------------------
(* C30: auto_populate_titles.  File names and titles are sequences of        *)
(* characters here, so that the title is computed from the name.             *)

MaxTitleSlices == 3

Digits == {"0", "1", "2", "3", "4", "5", "6", "7", "8", "9"}

NameMemoM4a == <<"m", "e", "m", "o", ".", "m", "4", "a">>
NameMemoWav == <<"m", "e", "m", "o", ".", "w", "a", "v">>
NameDated == <<"2", "0", "2", "5", "1", "1", "1", "7", " ", "1", ".", "m", "4", "a">>
TitleNames == {NameMemoM4a, NameMemoWav, NameDated}

TitleMemo == <<"m", "e", "m", "o">>
TitleMemo2 == <<"m", "e", "m", "o", " ", "(", "2", ")">>
TitleBlank == <<" ">>
TitleDated == <<"2", "0", "2", "5", "-", "1", "1", "-", "1", "7">>
TitleChoices == {None, Some(TitleBlank), Some(TitleMemo), Some(TitleMemo2)}

\* title.trim().is_empty()
IsBlank(t) == \A k \in 1 .. Len(t) : t[k] \in Whitespace
HasTitle(s) == IsSome(s.title) /\ ~ IsBlank(s.title[1])

\* (\d{8}): where the first run of eight digits starts, 0 if there is none
DateStart(name) ==
    LET starts == {k \in 1 .. (Len(name) - 7) : \A j \in k .. (k + 7) : name[j] \in Digits}
    IN  IF starts = {} THEN 0 ELSE CHOOSE k \in starts : \A j \in starts : k <= j

\* format!("{}-{}-{}", &date[0..4], &date[4..6], &date[6..8])
FormatDate(d) == SubSeq(d, 1, 4) \o <<"-">> \o SubSeq(d, 5, 6) \o <<"-">> \o SubSeq(d, 7, 8)

RECURSIVE TrimEndMatches(_, _)
\* str::trim_end_matches: the suffix is taken off as often as the string ends in it
TrimEndMatches(str, suffix) ==
    IF Len(str) >= Len(suffix) /\ SubSeq(str, Len(str) - Len(suffix) + 1, Len(str)) = suffix
    THEN TrimEndMatches(SubSeq(str, 1, Len(str) - Len(suffix)), suffix)
    ELSE str

\* the title taken from the file name: the date of the name, or the name
\* without .m4a, .wav, .mp3
BaseTitle(name) ==
    IF DateStart(name) # 0
    THEN FormatDate(SubSeq(name, DateStart(name), DateStart(name) + 7))
    ELSE TrimEndMatches(TrimEndMatches(TrimEndMatches(name, <<".", "m", "4", "a">>),
                                       <<".", "w", "a", "v">>),
                        <<".", "m", "p", "3">>)

\* format!("{} ({})", base_title, counter)
Numbered(base, counter) == base \o <<" ", "(", ToString(counter), ")">>

RECURSIVE FirstUnused(_, _, _, _)
\* while title_counts.contains_key(&title) { title = base (counter); counter += 1 }
FirstUnused(title, base, counter, seen) ==
    IF title \in seen
    THEN FirstUnused(Numbered(base, counter), base, counter + 1, seen)
    ELSE title

RECURSIVE PopulateFrom(_, _, _, _)
\* the loop over list_all_slices (ORDER BY id) from id on: seen is the key set
\* of title_counts, the titles of the slices the loop has passed
PopulateFrom(cat, id, seen, updated) ==
    IF id \notin DOMAIN cat
    THEN [cat |-> cat, updated_count |-> updated]
    ELSE IF HasTitle(cat[id])
    THEN PopulateFrom(cat, id + 1, seen \cup {cat[id].title[1]}, updated)
    ELSE LET title == FirstUnused(BaseTitle(cat[id].name), BaseTitle(cat[id].name), 2, seen)
         IN  PopulateFrom([cat EXCEPT ![id].title = Some(title)], id + 1,
                          seen \cup {title}, updated + 1)

AutoPopulateTitlesDb(cat) == PopulateFrom(cat, 1, {}, 0)

\* the auto_populate_titles command; hist keeps the catalog it found
AutoPopulateTitles ==
    /\ catalog' = AutoPopulateTitlesDb(catalog).cat
    /\ hist' = Some([before |-> catalog,
                     updated_count |-> AutoPopulateTitlesDb(catalog).updated_count])
    /\ ret' = Event("auto_populate_titles", "ok")
    /\ UNCHANGED <<lastRowid, audioDir, env, migProgress, mig, trProgress, tr>>

\* catalogs of two or three recordings with distinct file names, each with no
\* title, a blank title or a title given by the user
TitleCatalogs ==
    UNION { { c \in [1 .. n -> [name : TitleNames, title : TitleChoices]] :
                \A a \in 1 .. n, b \in 1 .. n : a # b => c[a].name # c[b].name }
            : n \in 2 .. MaxTitleSlices }

TitledSlice(r) ==
    NewSlice(r.name, r.title, FALSE, 1024, "m4a", 30, None, None, None, None, None)

InitTitles ==
    /\ \E c \in TitleCatalogs : catalog = [id \in DOMAIN c |-> TitledSlice(c[id])]
    /\ lastRowid = 0
    /\ audioDir = << >>
    /\ ret = Event("none", "ok")
    /\ env = DefaultEnv
    /\ migProgress = None
    /\ mig = [w \in MigWorkers |-> IdleMig]
    /\ trProgress = None
    /\ tr = [w \in TrWorkers |-> IdleTr]
    /\ hist = None

NextTitles == AutoPopulateTitles

SpecTitles == InitTitles /\ [][NextTitles]_vars

Called == ret.op = "auto_populate_titles"
Before == hist[1].before
Assigned == {id \in DOMAIN catalog : ~ HasTitle(Before[id])}

\* a title made from the name: its base title, or the base title with a number
DerivedFromName(title, name) ==
    \/ title = BaseTitle(name)
    \/ \E n \in 2 .. (MaxTitleSlices + 2) : title = Numbered(BaseTitle(name), n)

KeepsGivenTitles ==
    \A id \in DOMAIN catalog : HasTitle(Before[id]) => catalog[id].title = Before[id].title

AssignsDerivedTitles ==
    \A id \in Assigned :
        /\ IsSome(catalog[id].title)
        /\ catalog[id].title[1] # << >>
        /\ DerivedFromName(catalog[id].title[1], catalog[id].name)

\* C30: after auto_populate_titles every slice that had a non-blank title has
\* kept it, every other slice has a non-empty title derived from its file
\* name, and no title assigned by the call equals the title of any other slice,
\* whether that title was there before the call or was assigned by it
C30_TitlesKeptDerivedUnique ==
    Called =>
        /\ DOMAIN catalog = DOMAIN Before
        /\ KeepsGivenTitles
        /\ AssignsDerivedTitles
        /\ \A id \in Assigned, j \in DOMAIN catalog :
              j # id => catalog[j].title # catalog[id].title

\* slice 1 (memo.m4a, no title) was given the title 'memo', which slice 2 had
\* before the call and still has
C30_Witness ==
    /\ Called
    /\ Before[1].name = NameMemoM4a
    /\ Before[1].title = None
    /\ Before[2].title = Some(TitleMemo)
    /\ catalog[1].title = Some(TitleMemo)
    /\ catalog[2].title = Some(TitleMemo)

\* what the call does guarantee: given titles are kept, assigned titles are
\* derived from the name, and an assigned title differs from the title of
\* every slice with a smaller id
C30_UniqueAmongEarlierSlices ==
    Called =>
        /\ DOMAIN catalog = DOMAIN Before
        /\ KeepsGivenTitles
        /\ AssignsDerivedTitles
        /\ \A id \in Assigned, j \in DOMAIN catalog :
              j < id => catalog[j].title # catalog[id].title

\* two untitled recordings of the same stem and a dated one: memo, memo (2)
\* and 2025-11-17
C30_WitnessNumbered ==
    /\ Called
    /\ catalog[1].title = Some(TitleMemo)
    /\ catalog[2].title = Some(TitleMemo2)
    /\ 3 \in DOMAIN catalog
    /\ catalog[3].title = Some(TitleDated)
    /\ Assigned = {1, 2, 3}

====
